---- MODULE Spec2Model ----
(***************************************************************************)
(* Three-phase commit over a partitioned key-value store.                  *)
(*                                                                         *)
(* Participants (Server, src/server.go) are modelled from their code: the  *)
(* per-key sync.RWMutex, the operation log, the per-transaction state map  *)
(* and the five RPC handlers.  A handler is a thread.  A section that a    *)
(* handler runs under the participant mutex sv.mu without touching a       *)
(* per-key lock is one step.  Every access a handler makes to a word of a  *)
(* per-key lock is a step of its own: Prepare makes these accesses outside *)
(* sv.mu, so they interleave with the accesses that Abort and Commit make  *)
(* in their release loops while they hold sv.mu.  The unlock of sv.mu that *)
(* precedes a call of RLock() or Lock() in Prepare is a step of its own    *)
(* too, so that the holder of sv.mu is part of the state.                  *)
(***************************************************************************)
EXTENDS Integers, Sequences, FiniteSets, TLC

(***************************************************************************)
(* Bounds of the model.                                                    *)
(***************************************************************************)
MaxOps == 2          \* logged operations per participant (all transactions)
MaxBatchOps == 4     \* logged operations of a batch of concurrent transactions
MaxPrepare == 2      \* Prepare handlers in progress at one participant
MaxRestarts == 2     \* coordinator restarts with one transaction in the system
MaxRestartsTwo == 1  \* coordinator restarts with two transactions in the system

Servers == {0, 1}
Tids == {1, 2}
Vals == {1, 2}
AllKeys == {"x", "y", "u"}     \* "u" is owned by no participant

(***************************************************************************)
(* TransactionState (src/unnamed/part_000:9-16).  A tid that has no entry  *)
(* in Server.states reads as the zero value stateOperations.               *)
(***************************************************************************)
stateOperations == 0
stateVotedNo == 1
stateVotedYes == 2
statePreCommitted == 3
stateAborted == 4
stateCommitted == 5
NoEntry == -1        \* tid is not a key of the Server.states map
Nil == 0             \* the nil interface value of a fresh StoreItem

NoFatal == "none"
FatalUnlock == "fatal error: sync: Unlock of unlocked RWMutex"
FatalRUnlock == "fatal error: sync: RUnlock of unlocked RWMutex"

VARIABLES
  store,        \* store[p][k]: StoreItem.value of key k owned by participant p
  rwlock,       \* rwlock[p][k]: StoreItem.lock, [r, ann, wm, rw, sem, rsem]
  operations,   \* operations[p][tid]: Server.operations
  states,       \* states[p][tid]: Server.states (NoEntry when absent)
  prepare,      \* prepare[p][h]: Prepare handlers in progress at p
  mu,           \* mu[p]: the handler that holds sv.mu from one step to the next
  held,         \* held[p][tid][k]: locks Prepare(tid) acquired, not yet released for tid
  commits,      \* commits[p]: the tids that reached Committed at p, in that order
  call,         \* SpecServer: the handler step taken last, whether it returned, its reply
  fatal,        \* Go runtime fatal error that ended the process, or NoFatal
  epoch,        \* number of coordinator restarts: the generation of config.endnames
  coord,        \* "recovering" or "running": whether MakeCoordinator's recovery is over
  task,         \* task[tid]: the coordinator's protocol task for tid
  msgs,         \* requests the current coordinator has sent and not yet given up
  submitted,    \* submitted[tid]: the client has called FinishTransaction(tid)
  transactions, \* transactions[tid]: the ResponseMsg values config.apply has kept for tid
  applier,      \* "running", or "ended" once config.apply has failed the test
  handed,       \* the ResponseMsg values an applier has received and not yet applied
  heard         \* history: heard[tid], whose Commit loop for tid has answered the coordinator

srvvars == <<store, rwlock, operations, states, prepare, mu, held, commits, call, fatal>>
sysvars == <<epoch, coord, task, msgs, submitted, transactions, applier, handed, heard>>
vars == <<srvvars, sysvars>>

(***************************************************************************)
(* Operation (src/unnamed/part_000:53-57).                                 *)
(***************************************************************************)
GetOp(k) == [IsGet |-> TRUE, Key |-> k, Value |-> Nil]
SetOp(k, v) == [IsGet |-> FALSE, Key |-> k, Value |-> v]

Slots == 1..MaxPrepare
\* a Prepare handler: where it stands (pc), the slice ops it has read, the index
\* i of the loop, the coordinator instance ep that called it, and the number n
\* of readers that Lock() found when it announced itself
IdleThread == [pc |-> "idle", tid |-> 0, ops |-> <<>>, i |-> 0, ep |-> 0, n |-> 0]
\* the holder of sv.mu.  An Abort or Commit handler inside its loop: the index i
\* of the operation and where it stands in the unlock of that operation (pc),
\* the coordinator instance ep that called it and the reply.ReadValues rv
\* collected so far.  A Prepare handler between lines 83 and 85: its slot h
NoHolder == [rpc |-> "none", tid |-> 0, i |-> 0, pc |-> "idle", ep |-> 0, rv |-> <<>>,
             h |-> 0]
\* a handler step that has not returned (ret = FALSE) or returned without reply fields;
\* each handler below comes with an operator that gives the step's reply
Step(rpc, p, tid, ep, ret) == [rpc |-> rpc, p |-> p, tid |-> tid, ep |-> ep, ret |-> ret]
NoCall == Step("none", 0, 0, 0, FALSE)
NoHold == [r |-> 0, w |-> 0]

Owned(p) == DOMAIN store[p]

\* sv.mu, the participant-wide mutex: mu[p] is the handler that has locked it
\* and not yet unlocked it.  Get, Set, Query and PreCommit lock it at entry and
\* unlock it at return, within one step.  Abort and Commit lock it at entry and
\* unlock it at return, over the steps of their loops.  Prepare locks and
\* unlocks it around each access to the maps: lines 49-58, 63-76, 92-94 and
\* 128-130 are one step each, and the lookup of lines 83-85, which a call of
\* RLock() or Lock() follows, is two: the handler holds sv.mu after line 84
\* and gives it up at line 85.
HoldsMu(p, h) == mu[p].rpc = "Prepare" /\ mu[p].h = h
MuFree(p) == mu[p].rpc = "none"

\* sv.states[tid] as Go reads it: the zero value when the key is absent
StateOf(p, tid) == IF states[p][tid] = NoEntry THEN stateOperations ELSE states[p][tid]

\* total number of operations logged at p
RECURSIVE SumLen(_, _)
SumLen(f, S) == IF S = {} THEN 0
                ELSE LET t == CHOOSE t \in S : TRUE IN Len(f[t]) + SumLen(f, S \ {t})
Logged(p) == SumLen(operations[p], Tids)

\* the log of tid at p has a Set of key k
HasSetOn(p, tid, k) == \E j \in 1..Len(operations[p][tid]) :
  ~operations[p][tid][j].IsGet /\ operations[p][tid][j].Key = k

(***************************************************************************)
(* sync.RWMutex, as the Go runtime implements it (sync/rwmutex.go):        *)
(*   RLock    if readerCount.Add(1) < 0 { sleep on readerSem }             *)
(*   RUnlock  if r := readerCount.Add(-1); r < 0 {                         *)
(*              if r+1 == 0 || r+1 == -rwmutexMaxReaders { fatal }         *)
(*              if readerWait.Add(-1) == 0 { post writerSem } }            *)
(*   Lock     w.Lock()                                                     *)
(*            r := readerCount.Add(-rwmutexMaxReaders) + rwmutexMaxReaders *)
(*            if r != 0 && readerWait.Add(r) != 0 { sleep on writerSem }   *)
(*   Unlock   r := readerCount.Add(rwmutexMaxReaders)                      *)
(*            if r >= rwmutexMaxReaders { fatal }                          *)
(*            post readerSem r times; w.Unlock()                           *)
(* readerCount is kept as the pair (r, ann): r counts the readers that     *)
(* have entered RLock and not left by RUnlock, those asleep in RLock       *)
(* included, and ann tells that a writer has subtracted rwmutexMaxReaders  *)
(* (it has announced itself).  wm tells that the writers' mutex w is       *)
(* taken, rw is readerWait, sem the writer semaphore and rsem the reader   *)
(* semaphore.  Each atomic access to readerCount, readerWait or w is one   *)
(* operator below and one step of the handler that makes it; the posts of  *)
(* a semaphore are made with the access that decides them, and a sleeper   *)
(* takes its post in a step of its own.  The mutex has no owner: an unlock *)
(* releases whoever holds it.                                              *)
(***************************************************************************)
\* RLock: readerCount.Add(1); the caller sleeps when a writer is announced
RLockAdd(l) == [l EXCEPT !.r = @ + 1]
RLockSleeps(l) == l.ann

\* Lock: w.Lock(), which waits until the writers' mutex is free
MutexLock(l) == [l EXCEPT !.wm = TRUE]

\* Lock: readerCount.Add(-rwmutexMaxReaders); the result r is the readers counted
LockAnnounce(l) == [l EXCEPT !.ann = TRUE]

\* Lock: readerWait.Add(r); the caller sleeps when the result is not 0
LockReaderWait(l, r) == [l EXCEPT !.rw = @ + r]

\* RUnlock: readerCount.Add(-1); fatal when no reader was counted, and the slow
\* path is taken when a writer is announced
RUnlockFatal(l) == l.r = 0
RUnlockAdd(l) == [l EXCEPT !.r = @ - 1]
RUnlockIsSlow(l) == l.ann

\* rUnlockSlow: readerWait.Add(-1), and the post of writerSem when the result is 0
RUnlockSlow(l) == [l EXCEPT !.rw = @ - 1, !.sem = IF l.rw = 1 THEN @ + 1 ELSE @]

\* Unlock: readerCount.Add(rwmutexMaxReaders); fatal when no writer was
\* announced; readerSem is posted once per counted reader
UnlockFatal(l) == ~l.ann
UnlockAdd(l) == [l EXCEPT !.ann = FALSE, !.rsem = @ + l.r]

\* Unlock: w.Unlock()
MutexUnlock(l) == [l EXCEPT !.wm = FALSE]

\* a sleeper takes a post of its semaphore
SemAcquire(l, s) == IF s = "sem" THEN [l EXCEPT !.sem = @ - 1] ELSE [l EXCEPT !.rsem = @ - 1]

\* the holdings of a transaction after an unlock in mode "r" or "w"
Released(hd, mode) ==
  IF mode = "r" THEN [hd EXCEPT !.r = IF @ > 0 THEN @ - 1 ELSE 0]
  ELSE [hd EXCEPT !.w = IF @ > 0 THEN @ - 1 ELSE 0]

(***************************************************************************)
(* Get and Set (lines 288-336): append to the log; no entry of states is   *)
(* created.                                                                *)
(***************************************************************************)
Get(p, tid, k) ==
  /\ MuFree(p)
  /\ /\ operations' = [operations EXCEPT ![p][tid] = Append(@, GetOp(k))]
     /\ UNCHANGED <<store, rwlock, states, prepare, mu, held, commits, fatal>>

Set(p, tid, k, v) ==
  /\ MuFree(p)
  /\ /\ operations' = [operations EXCEPT ![p][tid] = Append(@, SetOp(k, v))]
     /\ UNCHANGED <<store, rwlock, states, prepare, mu, held, commits, fatal>>

(***************************************************************************)
(* Prepare (lines 37-131).  The handler takes sv.mu for each access to the *)
(* maps and releases it in between; each section is one step of a handler  *)
(* thread.  The calls on a per-key lock are made outside sv.mu, and each   *)
(* atomic access of such a call is one step.                               *)
(***************************************************************************)
PrepareReply(p, tid, ep, relevant, vote) ==
  [rpc |-> "Prepare", p |-> p, tid |-> tid, ep |-> ep, ret |-> TRUE,
   Relevant |-> relevant, Vote |-> vote]

FreeSlot(p) == CHOOSE h \in Slots : prepare[p][h].pc = "idle"
                                     /\ \A g \in Slots : prepare[p][g].pc = "idle" => h <= g

\* lines 49-58: the log of the transaction is read; with an empty log the
\* handler returns, otherwise it goes on with the slice it has read
PrepareStart(p, tid, ep) ==
  /\ MuFree(p)
  /\ LET ops == operations[p][tid] IN
     IF Len(ops) = 0
     THEN UNCHANGED <<store, rwlock, operations, states, prepare, mu, held, commits, fatal>>
     ELSE /\ \E h \in Slots : prepare[p][h].pc = "idle"
          /\ prepare' = [prepare EXCEPT ![p][FreeSlot(p)] =
                           [IdleThread EXCEPT !.pc = "check", !.tid = tid, !.ops = ops,
                                              !.i = 1, !.ep = ep]]
          /\ UNCHANGED <<store, rwlock, operations, states, mu, held, commits, fatal>>

\* a Prepare that answers relevant and yes for a tid it holds no operation of
PrepareStartReplyRelevant(p, tid, ep) ==
  IF Len(operations[p][tid]) = 0 THEN PrepareReply(p, tid, ep, TRUE, TRUE)
  ELSE Step("Prepare", p, tid, ep, FALSE)

PrepareStartReply(p, tid, ep) ==
  IF Len(operations[p][tid]) = 0 THEN PrepareReply(p, tid, ep, FALSE, FALSE)
  ELSE Step("Prepare", p, tid, ep, FALSE)

\* lines 63-76: the state check; the handler returns the vote of a state other
\* than stateOperations, otherwise it enters the loop
PrepareCheck(p, h) ==
  /\ MuFree(p)
  /\ LET th == prepare[p][h] IN
     /\ th.pc = "check"
     /\ prepare' = [prepare EXCEPT ![p][h] =
                      IF StateOf(p, th.tid) # stateOperations THEN IdleThread
                      ELSE [th EXCEPT !.pc = "loop"]]
     /\ UNCHANGED <<store, rwlock, operations, states, mu, held, commits, fatal>>

PrepareCheckReply(p, h) ==
  LET th == prepare[p][h] IN
  IF StateOf(p, th.tid) # stateOperations
  THEN PrepareReply(p, th.tid, th.ep, TRUE,
         StateOf(p, th.tid) \in {stateVotedYes, statePreCommitted, stateCommitted})
  ELSE Step("Prepare", p, th.tid, th.ep, FALSE)

\* lines 83-84: sv.mu is locked and the item of the operation's key is looked up
PrepareLookup(p, h) ==
  LET th == prepare[p][h] IN
  /\ MuFree(p)
  /\ prepare' = [prepare EXCEPT ![p][h].pc = "lookup"]
  /\ mu' = [mu EXCEPT ![p] = [NoHolder EXCEPT !.rpc = "Prepare", !.tid = th.tid, !.h = h]]
  /\ UNCHANGED <<store, rwlock, operations, states, held, commits, fatal>>

\* a Prepare that does not unlock sv.mu before it calls RLock() or Lock()
MuKeptAfterLookup(p, h) == mu[p]

\* line 85: sv.mu.Unlock()
MuAfterLookup(p, h) == NoHolder

\* line 85: sv.mu is unlocked; the handler goes on to the item's lock, or to
\* lines 89-94 when there is no item
PrepareLookupDone(p, h) ==
  LET th == prepare[p][h] IN
  /\ HoldsMu(p, h)
  /\ prepare' = [prepare EXCEPT ![p][h].pc =
                   IF th.ops[th.i].Key \in Owned(p) THEN "lock" ELSE "noitem"]
  /\ mu' = [mu EXCEPT ![p] = MuAfterLookup(p, h)]
  /\ UNCHANGED <<store, rwlock, operations, states, held, commits, fatal>>

\* lines 89-94: the key is not in the store, stateVotedNo is stored under sv.mu.
\* Without a lock taken so far the loop of lines 97-101 is empty and the handler
\* returns; otherwise the handler goes on with locks, the items it has locked
PrepareNoItem(p, h) ==
  LET th == prepare[p][h] IN
  /\ MuFree(p)
  /\ states' = [states EXCEPT ![p][th.tid] = stateVotedNo]
  /\ prepare' = [prepare EXCEPT ![p][h] =
                   IF th.i = 1 THEN IdleThread
                   ELSE [th EXCEPT !.pc = "unlock", !.ops = SubSeq(th.ops, 1, th.i - 1),
                                   !.i = 1]]
  /\ UNCHANGED <<store, rwlock, operations, mu, held, commits, fatal>>

\* the steps of one iteration of the loop of lines 82-124 that lock or unlock
\* sv.mu
PrepareLoop(p, h) ==
  LET th == prepare[p][h] IN
  /\ th.pc \in {"loop", "lookup", "noitem"}
  /\ th.i <= Len(th.ops)
  /\ IF th.pc = "loop" THEN PrepareLookup(p, h)
     ELSE IF th.pc = "lookup" THEN PrepareLookupDone(p, h)
     ELSE PrepareNoItem(p, h)

\* a Prepare that answers vote = yes although it met a key it does not own
PrepareLoopReplyVoteYes(p, h) ==
  LET th == prepare[p][h] IN
  IF th.pc = "noitem" /\ th.i = 1
  THEN PrepareReply(p, th.tid, th.ep, TRUE, TRUE)
  ELSE Step("Prepare", p, th.tid, th.ep, FALSE)

\* the vote No is returned at once when there is no lock to release
PrepareLoopReply(p, h) ==
  LET th == prepare[p][h] IN
  IF th.pc = "noitem" /\ th.i = 1
  THEN PrepareReply(p, th.tid, th.ep, TRUE, FALSE)
  ELSE Step("Prepare", p, th.tid, th.ep, FALSE)

\* the handler has the lock of its operation: line 122, and the next iteration
Acquired(th) == [th EXCEPT !.pc = "loop", !.i = @ + 1, !.n = 0]

\* line 111, item.lock.RLock(): the reader is counted, and it sleeps when a
\* writer is announced
PrepareRLock(p, h) ==
  LET th == prepare[p][h]
      k == th.ops[th.i].Key
      l == rwlock[p][k]
  IN /\ rwlock' = [rwlock EXCEPT ![p][k] = RLockAdd(l)]
     /\ IF RLockSleeps(l)
        THEN /\ prepare' = [prepare EXCEPT ![p][h].pc = "rwait"]
             /\ UNCHANGED held
        ELSE /\ prepare' = [prepare EXCEPT ![p][h] = Acquired(th)]
             /\ held' = [held EXCEPT ![p][th.tid][k].r = @ + 1]

\* line 116, item.lock.Lock(): the writers' mutex is taken once it is free
PrepareLockMutex(p, h) ==
  LET th == prepare[p][h]
      k == th.ops[th.i].Key
  IN /\ ~rwlock[p][k].wm
     /\ rwlock' = [rwlock EXCEPT ![p][k] = MutexLock(@)]
     /\ prepare' = [prepare EXCEPT ![p][h].pc = "announce"]
     /\ UNCHANGED held

\* line 116, item.lock.Lock(): the writer announces itself; it has the lock when
\* no reader is counted
PrepareLockAnnounce(p, h) ==
  LET th == prepare[p][h]
      k == th.ops[th.i].Key
      l == rwlock[p][k]
  IN /\ rwlock' = [rwlock EXCEPT ![p][k] = LockAnnounce(l)]
     /\ IF l.r = 0
        THEN /\ prepare' = [prepare EXCEPT ![p][h] = Acquired(th)]
             /\ held' = [held EXCEPT ![p][th.tid][k].w = @ + 1]
        ELSE /\ prepare' = [prepare EXCEPT ![p][h] = [th EXCEPT !.pc = "rwadd", !.n = l.r]]
             /\ UNCHANGED held

\* line 116, item.lock.Lock(): the readers found are added to readerWait; the
\* writer has the lock when the sum is 0 and sleeps otherwise
PrepareLockReaderWait(p, h) ==
  LET th == prepare[p][h]
      k == th.ops[th.i].Key
      l == rwlock[p][k]
  IN /\ rwlock' = [rwlock EXCEPT ![p][k] = LockReaderWait(l, th.n)]
     /\ IF l.rw + th.n = 0
        THEN /\ prepare' = [prepare EXCEPT ![p][h] = Acquired(th)]
             /\ held' = [held EXCEPT ![p][th.tid][k].w = @ + 1]
        ELSE /\ prepare' = [prepare EXCEPT ![p][h] = [th EXCEPT !.pc = "wait", !.n = 0]]
             /\ UNCHANGED held

\* lines 109-122: the next access of item.lock.RLock() / item.lock.Lock(), made
\* outside sv.mu
PrepareLock(p, h) ==
  LET th == prepare[p][h] IN
  /\ th.pc \in {"lock", "announce", "rwadd"}
  /\ IF th.pc = "lock"
     THEN IF th.ops[th.i].IsGet THEN PrepareRLock(p, h) ELSE PrepareLockMutex(p, h)
     ELSE IF th.pc = "announce" THEN PrepareLockAnnounce(p, h)
     ELSE PrepareLockReaderWait(p, h)
  /\ UNCHANGED <<store, operations, states, mu, commits, fatal>>

\* lines 97-103: the next access of a lock.lock.Unlock() of the loop over locks,
\* whatever the mode the lock was taken in; the handler returns after the last
\* Unlock()
PrepareUnlock(p, h) ==
  LET th == prepare[p][h]
      k == th.ops[th.i].Key
      l == rwlock[p][k]
  IN /\ th.pc \in {"unlock", "wunlock"}
     /\ IF th.pc = "unlock"
        THEN IF UnlockFatal(l)
             THEN /\ fatal' = FatalUnlock
                  /\ UNCHANGED <<rwlock, held, prepare>>
             ELSE /\ rwlock' = [rwlock EXCEPT ![p][k] = UnlockAdd(l)]
                  /\ held' = [held EXCEPT ![p][th.tid][k] = Released(@, "w")]
                  /\ prepare' = [prepare EXCEPT ![p][h].pc = "wunlock"]
                  /\ UNCHANGED fatal
        ELSE /\ rwlock' = [rwlock EXCEPT ![p][k] = MutexUnlock(l)]
             /\ prepare' = [prepare EXCEPT ![p][h] =
                              IF th.i = Len(th.ops) THEN IdleThread
                              ELSE [th EXCEPT !.pc = "unlock", !.i = @ + 1]]
             /\ UNCHANGED <<held, fatal>>
     /\ UNCHANGED <<store, operations, states, mu, commits>>

\* the vote No is returned after the last Unlock() of line 99
PrepareUnlockReply(p, h) ==
  LET th == prepare[p][h] IN
  IF th.pc = "wunlock" /\ th.i = Len(th.ops)
  THEN PrepareReply(p, th.tid, th.ep, TRUE, FALSE)
  ELSE Step("Prepare", p, th.tid, th.ep, FALSE)

\* a handler asleep in Lock() or RLock() returns once its semaphore is posted
PrepareWake(p, h) ==
  LET th == prepare[p][h]
      k == th.ops[th.i].Key
  IN /\ th.pc \in {"wait", "rwait"}
     /\ IF th.pc = "wait"
        THEN /\ rwlock[p][k].sem > 0
             /\ rwlock' = [rwlock EXCEPT ![p][k] = SemAcquire(@, "sem")]
             /\ held' = [held EXCEPT ![p][th.tid][k].w = @ + 1]
        ELSE /\ rwlock[p][k].rsem > 0
             /\ rwlock' = [rwlock EXCEPT ![p][k] = SemAcquire(@, "rsem")]
             /\ held' = [held EXCEPT ![p][th.tid][k].r = @ + 1]
     /\ prepare' = [prepare EXCEPT ![p][h] = Acquired(th)]
     /\ UNCHANGED <<store, operations, states, mu, commits, fatal>>

\* lines 126-131: every lock is taken
PrepareFinish(p, h) ==
  /\ MuFree(p)
  /\ LET th == prepare[p][h] IN
     /\ th.pc = "loop"
     /\ th.i > Len(th.ops)
     /\ states' = [states EXCEPT ![p][th.tid] = stateVotedYes]
     /\ prepare' = [prepare EXCEPT ![p][h] = IdleThread]
     /\ UNCHANGED <<store, rwlock, operations, mu, held, commits, fatal>>

PrepareFinishReply(p, h) ==
  PrepareReply(p, prepare[p][h].tid, prepare[p][h].ep, TRUE, TRUE)

(***************************************************************************)
(* The release loops of Abort (lines 159-170) and Commit (lines 256-274),  *)
(* run by the handler that holds sv.mu.  An operation on a key without an  *)
(* item is passed over; for the others the handler calls RUnlock() or      *)
(* Unlock(), one atomic access per step.                                   *)
(***************************************************************************)
\* the first operation from index j on whose key has an item, or Len(ops) + 1
NextItem(p, ops, j) ==
  LET S == {i \in j..Len(ops) : ops[i].Key \in Owned(p)}
  IN IF S = {} THEN Len(ops) + 1 ELSE CHOOSE i \in S : \A g \in S : i <= g

\* the handler is through with the operation at its index
Advance(p, th) ==
  [th EXCEPT !.pc = "loop", !.i = NextItem(p, operations[p][th.tid], th.i + 1)]

\* item.lock.RUnlock() (lines 164, 263): readerCount.Add(-1), then on the slow
\* path readerWait.Add(-1)
HolderRUnlock(p, k) ==
  LET th == mu[p]
      l == rwlock[p][k]
  IN IF th.pc = "loop"
     THEN IF RUnlockFatal(l)
          THEN /\ fatal' = FatalRUnlock
               /\ UNCHANGED <<rwlock, held>>
          ELSE /\ rwlock' = [rwlock EXCEPT ![p][k] = RUnlockAdd(l)]
               /\ held' = [held EXCEPT ![p][th.tid][k] = Released(@, "r")]
               /\ UNCHANGED fatal
     ELSE /\ rwlock' = [rwlock EXCEPT ![p][k] = RUnlockSlow(l)]
          /\ UNCHANGED <<held, fatal>>

\* item.lock.Unlock() (lines 167, 268): readerCount.Add(rwmutexMaxReaders) with
\* the posts of readerSem, then w.Unlock()
HolderUnlock(p, k) ==
  LET th == mu[p]
      l == rwlock[p][k]
  IN IF th.pc = "loop"
     THEN IF UnlockFatal(l)
          THEN /\ fatal' = FatalUnlock
               /\ UNCHANGED <<rwlock, held>>
          ELSE /\ rwlock' = [rwlock EXCEPT ![p][k] = UnlockAdd(l)]
               /\ held' = [held EXCEPT ![p][th.tid][k] = Released(@, "w")]
               /\ UNCHANGED fatal
     ELSE /\ rwlock' = [rwlock EXCEPT ![p][k] = MutexUnlock(l)]
          /\ UNCHANGED <<held, fatal>>

\* where the handler stands after the access it makes on the lock of op's key:
\* it stays where it is when the access is fatal (the process is over)
AfterAccess(p, th, op) ==
  LET l == rwlock[p][op.Key] IN
  IF th.pc # "loop" THEN Advance(p, th)
  ELSE IF op.IsGet
  THEN (IF RUnlockFatal(l) THEN th
        ELSE IF RUnlockIsSlow(l) THEN [th EXCEPT !.pc = "slow"] ELSE Advance(p, th))
  ELSE (IF UnlockFatal(l) THEN th ELSE [th EXCEPT !.pc = "wunlock"])

(***************************************************************************)
(* Abort (lines 137-176).                                                  *)
(***************************************************************************)
\* an Abort that runs the unlock loop again for a transaction that is Aborted
AbortReturnsUnknown(p, tid) == states[p][tid] = NoEntry

\* lines 150-153: nothing to do for a tid without a state or already Aborted
AbortReturns(p, tid) == states[p][tid] = NoEntry \/ states[p][tid] = stateAborted

\* lines 142-153: sv.mu is taken; the handler returns at once or enters the loop
Abort(p, tid, ep) ==
  /\ MuFree(p)
  /\ mu' = IF AbortReturns(p, tid) THEN mu
           ELSE [mu EXCEPT ![p] = [NoHolder EXCEPT !.rpc = "Abort", !.tid = tid,
                                     !.i = NextItem(p, operations[p][tid], 1),
                                     !.pc = "loop", !.ep = ep]]
  /\ UNCHANGED <<store, rwlock, operations, states, prepare, held, commits, fatal>>

\* Abort has an empty reply
AbortReply(p, tid, ep) == Step("Abort", p, tid, ep, AbortReturns(p, tid))

\* lines 159-170: one access of the unlock call of the operation at the index
AbortLoop(p) ==
  LET th == mu[p]
      op == operations[p][th.tid][th.i]
  IN /\ IF op.IsGet THEN HolderRUnlock(p, op.Key) ELSE HolderUnlock(p, op.Key)
     /\ mu' = [mu EXCEPT ![p] = AfterAccess(p, th, op)]
     /\ UNCHANGED <<store, operations, states, prepare, commits>>

\* lines 172-176: the state is set, sv.mu is released and the handler returns
AbortFinish(p) ==
  /\ states' = [states EXCEPT ![p][mu[p].tid] = stateAborted]
  /\ mu' = [mu EXCEPT ![p] = NoHolder]
  /\ UNCHANGED <<store, rwlock, operations, prepare, held, commits, fatal>>

\* the next step of the Abort handler that holds sv.mu
AbortStep(p) ==
  /\ mu[p].rpc = "Abort"
  /\ IF mu[p].i <= Len(operations[p][mu[p].tid]) THEN AbortLoop(p) ELSE AbortFinish(p)

AbortStepReply(p) ==
  Step("Abort", p, mu[p].tid, mu[p].ep, mu[p].i > Len(operations[p][mu[p].tid]))

(***************************************************************************)
(* Query (lines 184-201): one entry per key of the states map.             *)
(***************************************************************************)
QueryReply(p) ==
  [tid \in {t \in Tids : states[p][t] # NoEntry} |->
     [State |-> states[p][tid], Operations |-> operations[p][tid]]]

Query(p) ==
  /\ MuFree(p)
  /\ UNCHANGED <<store, rwlock, operations, states, prepare, mu, held, commits, fatal>>

(***************************************************************************)
(* PreCommit (lines 213-229).                                              *)
(***************************************************************************)
PreCommit(p, tid) ==
  /\ MuFree(p)
  /\ /\ states' = IF Len(operations[p][tid]) > 0 /\ StateOf(p, tid) = stateVotedYes
                  THEN [states EXCEPT ![p][tid] = statePreCommitted] ELSE states
     /\ UNCHANGED <<store, rwlock, operations, prepare, mu, held, commits, fatal>>

(***************************************************************************)
(* Commit (lines 239-280).                                                 *)
(***************************************************************************)
\* a Commit that does not require the PreCommit round: it also acts on VotedYes
CommitReturnsUnlessVoted(p, tid) ==
  Len(operations[p][tid]) = 0 \/ StateOf(p, tid) \notin {stateVotedYes, statePreCommitted}

\* lines 248-252: nothing to do for a tid without operations or not PreCommitted
CommitReturns(p, tid) ==
  Len(operations[p][tid]) = 0 \/ StateOf(p, tid) # statePreCommitted

\* lines 243-252: sv.mu is taken; the handler returns at once or enters the loop
Commit(p, tid, ep) ==
  /\ MuFree(p)
  /\ mu' = IF CommitReturns(p, tid) THEN mu
           ELSE [mu EXCEPT ![p] = [NoHolder EXCEPT !.rpc = "Commit", !.tid = tid,
                                     !.i = NextItem(p, operations[p][tid], 1),
                                     !.pc = "loop", !.ep = ep]]
  /\ UNCHANGED <<store, rwlock, operations, states, prepare, held, commits, fatal>>

\* CommitReply.ReadValues
CommitReply(p, tid, ep, rv) ==
  [rpc |-> "Commit", p |-> p, tid |-> tid, ep |-> ep, ret |-> TRUE, ReadValues |-> rv]

\* the reply of the entry step: empty when the handler returns at once
CommitEntryReply(p, tid, ep) ==
  IF CommitReturns(p, tid) THEN CommitReply(p, tid, ep, <<>>)
  ELSE Step("Commit", p, tid, ep, FALSE)

\* a Commit that returns no value
ReadValuesNone(rv, op, v) == rv

\* line 261: reply.ReadValues after the operation op, v being the item's value
ReadValues(rv, op, v) == IF op.IsGet THEN (op.Key :> v) @@ rv ELSE rv

\* lines 256-274: one access of the unlock call of the operation at the index.
\* The value is read (line 261) or written (line 266) before the call is made:
\* in the step of the call's first access, whether or not that access is fatal
CommitLoop(p) ==
  LET th == mu[p]
      op == operations[p][th.tid][th.i]
      next == AfterAccess(p, th, op)
  IN /\ IF op.IsGet THEN HolderRUnlock(p, op.Key) ELSE HolderUnlock(p, op.Key)
     /\ IF th.pc = "loop"
        THEN /\ store' = IF op.IsGet THEN store
                         ELSE [store EXCEPT ![p][op.Key] = op.Value]
             /\ mu' = [mu EXCEPT ![p] =
                         [next EXCEPT !.rv = ReadValues(th.rv, op, store[p][op.Key])]]
        ELSE /\ mu' = [mu EXCEPT ![p] = next]
             /\ UNCHANGED store
     /\ UNCHANGED <<operations, states, prepare, commits>>

\* lines 276-280: the state is set, sv.mu is released and the handler returns
CommitFinish(p) ==
  /\ states' = [states EXCEPT ![p][mu[p].tid] = stateCommitted]
  /\ commits' = [commits EXCEPT ![p] = Append(@, mu[p].tid)]
  /\ mu' = [mu EXCEPT ![p] = NoHolder]
  /\ UNCHANGED <<store, rwlock, operations, prepare, held, fatal>>

\* the next step of the Commit handler that holds sv.mu
CommitStep(p) ==
  /\ mu[p].rpc = "Commit"
  /\ IF mu[p].i <= Len(operations[p][mu[p].tid]) THEN CommitLoop(p) ELSE CommitFinish(p)

CommitStepReply(p) ==
  IF mu[p].i > Len(operations[p][mu[p].tid])
  THEN CommitReply(p, mu[p].tid, mu[p].ep, mu[p].rv)
  ELSE Step("Commit", p, mu[p].tid, mu[p].ep, FALSE)

(***************************************************************************)
(* MakeServer (lines 344-363).                                             *)
(***************************************************************************)
MakeServer(keys) ==
  [store |-> [k \in keys |-> Nil],
   rwlock |-> [k \in keys |-> [r |-> 0, ann |-> FALSE, wm |-> FALSE, rw |-> 0,
                               sem |-> 0, rsem |-> 0]]]

(***************************************************************************)
(* One participant that owns x and y, driven by arbitrary callers: every   *)
(* client call and every RPC may arrive at any time, any number of times.  *)
(***************************************************************************)
IdleTask == [phase |-> "idle", R |-> {}, got |-> {}, rv |-> <<>>]

InitSys ==
  /\ epoch = 0
  /\ coord = "running"
  /\ task = [t \in Tids |-> IdleTask]
  /\ msgs = {}
  /\ submitted = [t \in Tids |-> FALSE]
  /\ transactions = [t \in Tids |-> <<>>]
  /\ applier = "running"
  /\ handed = {}
  /\ heard = [t \in Tids |-> {}]

SUT == 0
ServerKeys == [p \in Servers |-> IF p = SUT THEN {"x", "y"} ELSE {}]

InitServer ==
  /\ store = [p \in Servers |-> MakeServer(ServerKeys[p]).store]
  /\ rwlock = [p \in Servers |-> MakeServer(ServerKeys[p]).rwlock]
  /\ operations = [p \in Servers |-> [t \in Tids |-> <<>>]]
  /\ states = [p \in Servers |-> [t \in Tids |-> NoEntry]]
  /\ prepare = [p \in Servers |-> [h \in Slots |-> IdleThread]]
  /\ mu = [p \in Servers |-> NoHolder]
  /\ held = [p \in Servers |-> [t \in Tids |-> [k \in ServerKeys[p] |-> NoHold]]]
  /\ commits = [p \in Servers |-> <<>>]
  /\ call = NoCall
  /\ fatal = NoFatal
  /\ InitSys

Running == fatal = NoFatal

\* the client logs the operations of a transaction before it finishes it
\* (README, The Protocol, steps 1 and 2): no Prepare for it has passed the state
\* check of lines 63-76 yet
Unprepared(p, t) ==
  /\ states[p][t] = NoEntry
  /\ \A h \in Slots : prepare[p][h].pc \in {"idle", "check"} \/ prepare[p][h].tid # t

\* the operations are on x, a key of the participant, and on u, a key that has
\* no item in its store
CallGet == \E t \in Tids, k \in {"x", "u"} :
  /\ Running /\ Logged(SUT) < MaxOps /\ Unprepared(SUT, t)
  /\ Get(SUT, t, k)
  /\ call' = Step("Get", SUT, t, 0, TRUE)
  /\ UNCHANGED sysvars

\* a Set writes the transaction's id, as the clients of the tests do
CallSet == \E t \in Tids, k \in {"x", "u"} :
  /\ Running /\ Logged(SUT) < MaxOps /\ Unprepared(SUT, t)
  /\ Set(SUT, t, k, t)
  /\ call' = Step("Set", SUT, t, 0, TRUE)
  /\ UNCHANGED sysvars

CallPrepare == \E t \in Tids :
  /\ Running /\ PrepareStart(SUT, t, 0)
  /\ call' = PrepareStartReply(SUT, t, 0)
  /\ UNCHANGED sysvars

StepPrepareCheck == \E h \in Slots :
  /\ Running /\ PrepareCheck(SUT, h)
  /\ call' = PrepareCheckReply(SUT, h)
  /\ UNCHANGED sysvars

StepPrepareLoop == \E h \in Slots :
  /\ Running /\ PrepareLoop(SUT, h)
  /\ call' = PrepareLoopReply(SUT, h)
  /\ UNCHANGED sysvars

StepPrepareLock == \E h \in Slots :
  /\ Running /\ PrepareLock(SUT, h)
  /\ call' = Step("Prepare", SUT, prepare[SUT][h].tid, 0, FALSE)
  /\ UNCHANGED sysvars

StepPrepareUnlock == \E h \in Slots :
  /\ Running /\ PrepareUnlock(SUT, h)
  /\ call' = PrepareUnlockReply(SUT, h)
  /\ UNCHANGED sysvars

StepPrepareWake == \E h \in Slots :
  /\ Running /\ PrepareWake(SUT, h)
  /\ call' = Step("Prepare", SUT, prepare[SUT][h].tid, 0, FALSE)
  /\ UNCHANGED sysvars

StepPrepareFinish == \E h \in Slots :
  /\ Running /\ PrepareFinish(SUT, h)
  /\ call' = PrepareFinishReply(SUT, h)
  /\ UNCHANGED sysvars

CallPreCommit == \E t \in Tids :
  /\ Running /\ PreCommit(SUT, t)
  /\ call' = Step("PreCommit", SUT, t, 0, TRUE)
  /\ UNCHANGED sysvars

CallCommit == \E t \in Tids :
  /\ Running /\ Commit(SUT, t, 0)
  /\ call' = CommitEntryReply(SUT, t, 0)
  /\ UNCHANGED sysvars

StepCommit ==
  /\ Running /\ CommitStep(SUT)
  /\ call' = CommitStepReply(SUT)
  /\ UNCHANGED sysvars

CallAbort == \E t \in Tids :
  /\ Running /\ Abort(SUT, t, 0)
  /\ call' = AbortReply(SUT, t, 0)
  /\ UNCHANGED sysvars

StepAbort ==
  /\ Running /\ AbortStep(SUT)
  /\ call' = AbortStepReply(SUT)
  /\ UNCHANGED sysvars

CallQuery ==
  /\ Running /\ Query(SUT)
  /\ call' = [rpc |-> "Query", p |-> SUT, tid |-> 0, ep |-> 0, ret |-> TRUE,
               Transactions |-> QueryReply(SUT)]
  /\ UNCHANGED sysvars

NextServer ==
  \/ CallGet
  \/ CallSet
  \/ CallPrepare
  \/ StepPrepareCheck
  \/ StepPrepareLoop
  \/ StepPrepareLock
  \/ StepPrepareUnlock
  \/ StepPrepareWake
  \/ StepPrepareFinish
  \/ CallPreCommit
  \/ CallCommit
  \/ StepCommit
  \/ CallAbort
  \/ StepAbort
  \/ CallQuery

SpecServer == InitServer /\ [][NextServer]_vars

(***************************************************************************)
(* The whole system: the test harness (src/config.go), the participants    *)
(* and a coordinator.  The coordinator's code (coordinator.go) is not part *)
(* of the sources at hand; it is modelled from the specification, section  *)
(* 4.2 and the README's protocol description.                              *)
(*                                                                         *)
(* Network: a request stays in msgs until it is handled, which may be      *)
(* never: a disconnected participant (config.disconnect) is one whose      *)
(* requests are not delivered until it is connected again.  Prepare and    *)
(* PreCommit are sent once per round and answered or timed out; a request  *)
(* delivered after its timeout runs the handler and its reply is ignored.  *)
(* Commit and Abort are re-sent until a reply arrives, so the handler may  *)
(* run several times.  A restart gives the coordinator fresh end names     *)
(* (config.newCoordinator), which drops the requests of the old instance;  *)
(* handlers already running at a participant keep running, and their       *)
(* replies go nowhere.  The new instance sends a Query to every            *)
(* participant and keeps the replies; its recovery ends when every reply   *)
(* is in.                                                                  *)
(***************************************************************************)
Keys == [p \in Servers |-> IF p = 0 THEN {"x"} ELSE {"y"}]

\* config.keyMap: a key that is not in the map reads as participant 0
KeyMap(k) == IF k = "y" THEN 1 ELSE 0

Init ==
  /\ store = [p \in Servers |-> MakeServer(Keys[p]).store]
  /\ rwlock = [p \in Servers |-> MakeServer(Keys[p]).rwlock]
  /\ operations = [p \in Servers |-> [t \in Tids |-> <<>>]]
  /\ states = [p \in Servers |-> [t \in Tids |-> NoEntry]]
  /\ prepare = [p \in Servers |-> [h \in Slots |-> IdleThread]]
  /\ mu = [p \in Servers |-> NoHolder]
  /\ held = [p \in Servers |-> [t \in Tids |-> [k \in Keys[p] |-> NoHold]]]
  /\ commits = [p \in Servers |-> <<>>]
  /\ call = NoCall
  /\ fatal = NoFatal
  /\ InitSys

Req(rpc, t, p) == [rpc |-> rpc, tid |-> t, to |-> p]
ReqAll(rpc, t, S) == {Req(rpc, t, p) : p \in S}

\* an Abort path that reaches only the relevant participants found so far
ToAbortRelevant(t) ==
  [task |-> [phase |-> "abort", R |-> {}, got |-> {}, rv |-> <<>>],
   send |-> ReqAll("Abort", t, task[t].R)]

\* the coordinator's next task state and the requests it sends, as [task, send]
ToAbort(t) ==
  [task |-> [phase |-> "abort", R |-> {}, got |-> {}, rv |-> <<>>],
   send |-> ReqAll("Abort", t, Servers)]
ToPreCommit(t, R) ==
  [task |-> [phase |-> "precommit", R |-> R, got |-> {}, rv |-> <<>>],
   send |-> ReqAll("PreCommit", t, R)]
ToCommit(t, R) ==
  IF R = {}
  THEN [task |-> [phase |-> "emitCommitted", R |-> R, got |-> {}, rv |-> <<>>], send |-> {}]
  ELSE [task |-> [phase |-> "commit", R |-> R, got |-> {}, rv |-> <<>>],
        send |-> ReqAll("Commit", t, R)]
ToPrepare(t) ==
  [task |-> [phase |-> "prepare", R |-> {}, got |-> {}, rv |-> <<>>],
   send |-> ReqAll("Prepare", t, Servers)]
Stay(t) == [task |-> task[t], send |-> {}]

\* a coordinator that pre-commits at the first participant that votes Yes
OnPrepareReplyFirstYes(t, p, relevant, vote) ==
  IF relevant /\ ~vote THEN ToAbort(t)
  ELSE IF relevant THEN ToPreCommit(t, {p})
  ELSE [task |-> [task[t] EXCEPT !.got = @ \cup {p}], send |-> {}]

\* Prepare round (spec 4.2, step 1): a No vote of a relevant participant decides
\* Abort; when every participant has answered, PreCommit goes to the relevant set
OnPrepareReply(t, p, relevant, vote) ==
  LET tk == task[t]
      R == IF relevant THEN tk.R \cup {p} ELSE tk.R
      got == tk.got \cup {p}
  IN IF relevant /\ ~vote THEN ToAbort(t)
     ELSE IF got = Servers
     THEN (IF R = {} THEN ToCommit(t, R) ELSE ToPreCommit(t, R))
     ELSE [task |-> [tk EXCEPT !.R = R, !.got = got], send |-> {}]

\* PreCommit round (step 2)
OnPreCommitReply(t, p) ==
  LET tk == task[t]
      got == tk.got \cup {p}
  IN IF got = tk.R THEN ToCommit(t, tk.R)
     ELSE [task |-> [tk EXCEPT !.got = got], send |-> {}]

\* a coordinator that reports after the first Commit reply
OnCommitReplyFirst(t, p, rv) ==
  [task |-> [task[t] EXCEPT !.got = @ \cup {p}, !.rv = rv @@ @, !.phase = "emitCommitted"],
   send |-> {}]

\* Commit round (step 3): the read values of the replies are merged
OnCommitReply(t, p, rv) ==
  LET tk == task[t]
      got == tk.got \cup {p}
  IN [task |-> [tk EXCEPT !.got = got, !.rv = rv @@ @,
                          !.phase = IF got = tk.R THEN "emitCommitted" ELSE @],
      send |-> {}]

\* Abort path (step 4): every participant must acknowledge
OnAbortReply(t, p) ==
  LET tk == task[t]
      got == tk.got \cup {p}
  IN [task |-> [tk EXCEPT !.got = got,
                          !.phase = IF got = Servers THEN "emitAborted" ELSE @],
      send |-> {}]

\* the reply of p reaches the task that sent the request
Awaited(rpc, t, p) ==
  /\ coord = "running"
  /\ task[t].phase = rpc
  /\ p \notin task[t].got
  /\ (rpc \in {"precommit", "commit"} => p \in task[t].R)

Update(t, next, handled) ==
  /\ task' = [task EXCEPT ![t] = next.task]
  /\ msgs' = (msgs \ handled) \cup next.send
  /\ UNCHANGED <<epoch, coord, submitted, transactions, applier, handed>>

\* The clients of the tests log the operations of a transaction before they
\* finish it, at most MaxOps in all; a Set writes the transaction's id (README,
\* TestSerializability); the key no participant owns is only read.  The tests
\* with failures (README, TestBasicCommit to TestRelevance, TestDisconnect*,
\* TestRestart*) run their transactions one after the other: the operations
\* of transaction 2 are sent once the response of transaction 1 has arrived.
Logging(t) ==
  /\ ~submitted[t] /\ Logged(0) + Logged(1) < MaxOps
  /\ t = 1 \/ transactions[1] # <<>>

\* config.sendGet (lines 310-315)
ClientGet == \E t \in Tids, k \in {"x", "u"} :
  /\ Running /\ Logging(t)
  /\ Get(KeyMap(k), t, k)
  /\ call' = NoCall
  /\ UNCHANGED sysvars

\* config.sendSet (lines 317-322)
ClientSet == \E t \in Tids, k \in {"x", "y"} :
  /\ Running /\ Logging(t)
  /\ Set(KeyMap(k), t, k, t)
  /\ call' = NoCall
  /\ UNCHANGED sysvars

\* config.finishTransaction (lines 324-329) and Coordinator.FinishTransaction
Finish == \E t \in Tids :
  /\ Running /\ coord = "running" /\ ~submitted[t]
  /\ \E p \in Servers : Len(operations[p][t]) > 0
  /\ submitted' = [submitted EXCEPT ![t] = TRUE]
  /\ task' = [task EXCEPT ![t] = ToPrepare(t).task]
  /\ msgs' = msgs \cup ToPrepare(t).send
  /\ call' = NoCall
  /\ UNCHANGED <<store, rwlock, operations, states, prepare, mu, held, commits, fatal,
                 epoch, coord, transactions, applier, handed, heard>>

\* what the coordinator does with the reply of a Prepare handler that was
\* started by the request of an earlier step
PrepareReturn(p, reply) ==
  IF reply.ret /\ reply.ep = epoch /\ Awaited("prepare", reply.tid, p)
  THEN /\ Update(reply.tid, OnPrepareReply(reply.tid, p, reply.Relevant, reply.Vote), {})
       /\ UNCHANGED heard
  ELSE UNCHANGED sysvars

DeliverPrepare == \E m \in msgs :
  LET reply == PrepareStartReply(m.to, m.tid, epoch) IN
  /\ Running /\ m.rpc = "Prepare"
  /\ PrepareStart(m.to, m.tid, epoch)
  /\ call' = NoCall
  /\ IF reply.ret /\ Awaited("prepare", m.tid, m.to)
     THEN /\ Update(m.tid, OnPrepareReply(m.tid, m.to, reply.Relevant, reply.Vote), {m})
          /\ UNCHANGED heard
     ELSE /\ msgs' = msgs \ {m}
          /\ UNCHANGED <<epoch, coord, task, submitted, transactions, applier, handed, heard>>

RunPrepareCheck == \E p \in Servers, h \in Slots :
  /\ Running /\ PrepareCheck(p, h)
  /\ call' = NoCall
  /\ PrepareReturn(p, PrepareCheckReply(p, h))

RunPrepareLoop == \E p \in Servers, h \in Slots :
  /\ Running /\ PrepareLoop(p, h)
  /\ call' = NoCall
  /\ PrepareReturn(p, PrepareLoopReply(p, h))

RunPrepareLock == \E p \in Servers, h \in Slots :
  /\ Running /\ PrepareLock(p, h)
  /\ call' = NoCall
  /\ UNCHANGED sysvars

RunPrepareUnlock == \E p \in Servers, h \in Slots :
  /\ Running /\ PrepareUnlock(p, h)
  /\ call' = NoCall
  /\ PrepareReturn(p, PrepareUnlockReply(p, h))

RunPrepareWake == \E p \in Servers, h \in Slots :
  /\ Running /\ PrepareWake(p, h)
  /\ call' = NoCall
  /\ UNCHANGED sysvars

RunPrepareFinish == \E p \in Servers, h \in Slots :
  /\ Running /\ PrepareFinish(p, h)
  /\ call' = NoCall
  /\ PrepareReturn(p, PrepareFinishReply(p, h))

DeliverPreCommit == \E m \in msgs :
  /\ Running /\ m.rpc = "PreCommit"
  /\ PreCommit(m.to, m.tid)
  /\ call' = NoCall
  /\ IF Awaited("precommit", m.tid, m.to)
     THEN /\ Update(m.tid, OnPreCommitReply(m.tid, m.to), {m})
          /\ UNCHANGED heard
     ELSE /\ msgs' = msgs \ {m}
          /\ UNCHANGED <<epoch, coord, task, submitted, transactions, applier, handed, heard>>

\* what the coordinator does with the reply of a Commit handler: the reply is
\* lost and the request is sent again, or it arrives at the instance that waits
\* for it.  The reply of a handler that has run the loop of lines 256-274 (ran)
\* is recorded in heard
CommitReturn(p, reply, lost, ran) ==
  IF reply.ret /\ ~lost /\ reply.ep = epoch /\ Awaited("commit", reply.tid, p)
  THEN /\ Update(reply.tid, OnCommitReply(reply.tid, p, reply.ReadValues),
                 {Req("Commit", reply.tid, p)})
       /\ heard' = IF ran THEN [heard EXCEPT ![reply.tid] = @ \cup {p}] ELSE heard
  ELSE UNCHANGED sysvars

\* a Commit request reaches its participant and the handler is entered
DeliverCommitThen(lost) == \E m \in msgs :
  /\ Running /\ m.rpc = "Commit"
  /\ Commit(m.to, m.tid, epoch)
  /\ call' = NoCall
  /\ CommitReturn(m.to, CommitEntryReply(m.to, m.tid, epoch), lost, FALSE)

DeliverCommit == \E lost \in BOOLEAN : DeliverCommitThen(lost)

\* the Commit handler that holds sv.mu takes its next step
RunCommitThen(lost) == \E p \in Servers :
  /\ Running /\ CommitStep(p)
  /\ call' = NoCall
  /\ CommitReturn(p, CommitStepReply(p), lost, TRUE)

RunCommit == \E lost \in BOOLEAN : RunCommitThen(lost)

AbortReturn(p, reply, lost) ==
  IF reply.ret /\ ~lost /\ reply.ep = epoch /\ Awaited("abort", reply.tid, p)
  THEN /\ Update(reply.tid, OnAbortReply(reply.tid, p), {Req("Abort", reply.tid, p)})
       /\ UNCHANGED heard
  ELSE UNCHANGED sysvars

DeliverAbortThen(lost) == \E m \in msgs :
  /\ Running /\ m.rpc = "Abort"
  /\ Abort(m.to, m.tid, epoch)
  /\ call' = NoCall
  /\ AbortReturn(m.to, AbortReply(m.to, m.tid, epoch), lost)

DeliverAbort == \E lost \in BOOLEAN : DeliverAbortThen(lost)

RunAbortThen(lost) == \E p \in Servers :
  /\ Running /\ AbortStep(p)
  /\ call' = NoCall
  /\ AbortReturn(p, AbortStepReply(p), lost)

RunAbort == \E lost \in BOOLEAN : RunAbortThen(lost)

\* a Prepare or PreCommit reply is overdue: the coordinator decides Abort
Timeout == \E t \in Tids :
  /\ Running /\ coord = "running"
  /\ task[t].phase \in {"prepare", "precommit"}
  /\ Update(t, ToAbort(t), {})
  /\ call' = NoCall
  /\ UNCHANGED heard
  /\ UNCHANGED <<store, rwlock, operations, states, prepare, mu, held, commits, fatal>>

\* config.apply (lines 136-147): a message for a tid that has one already fails
\* the test (Fatalf) before the append, which ends the goroutine of the applier
Apply(m) ==
  IF transactions[m.tid] # <<>>
  THEN [transactions |-> transactions, applier |-> "ended"]
  ELSE [transactions |-> [transactions EXCEPT ![m.tid] = Append(@, m)],
        applier |-> "running"]

\* the applier of coordinator instance e waits in its select (line 158): it
\* has not ended, and it holds no message that it has still to apply
Receiving(e) == applier = "running" /\ \A h \in handed : h.ep # e

\* The coordinator sends the ResponseMsg on its response channel, which has no
\* buffer (line 224): the send is the receive of line 158 by the applier that
\* was started with the channel.  The message is then with that applier
Emit == \E t \in Tids :
  LET m == [tid |-> t, committed |-> task[t].phase = "emitCommitted",
            readValues |-> task[t].rv]
  IN /\ Running /\ coord = "running" /\ Receiving(epoch)
     /\ task[t].phase \in {"emitCommitted", "emitAborted"}
     /\ handed' = handed \cup {[ep |-> epoch, msg |-> m]}
     /\ task' = [task EXCEPT ![t] = [IdleTask EXCEPT !.phase = "done"]]
     /\ heard' = [heard EXCEPT ![t] = {}]
     /\ call' = NoCall
     /\ UNCHANGED <<store, rwlock, operations, states, prepare, mu, held, commits, fatal,
                    epoch, coord, msgs, submitted, transactions, applier>>

\* config.applier (lines 159-164): the applier that has received a message
\* passes it to config.apply, its stopCh being non-nil when it looks: a restart
\* closes the channel and the applier notices that in a later select only.  So
\* the applier of an instance that has been killed still applies the message
\* it holds.  A Fatalf in config.apply ends the applier that called it
ApplierStep == \E h \in handed :
  /\ Running
  /\ transactions' = Apply(h.msg).transactions
  /\ applier' = IF h.ep = epoch THEN Apply(h.msg).applier ELSE applier
  /\ handed' = handed \ {h}
  /\ call' = NoCall
  /\ UNCHANGED <<store, rwlock, operations, states, prepare, mu, held, commits, fatal,
                 epoch, coord, task, msgs, submitted, heard>>

\* config.startCoordinator / restartCoordinatorLocked (lines 130-134, 185-244):
\* the old instance is killed and its end names disabled, a new one is made
\* with a response channel and an applier of its own.  The killed instance sends
\* nothing more; a message its applier has received stays with that applier
Restart ==
  /\ Running /\ epoch < MaxRestarts
  /\ epoch' = epoch + 1
  /\ coord' = "recovering"
  /\ task' = [t \in Tids |-> IdleTask]
  /\ msgs' = ReqAll("Query", 0, Servers)
  /\ applier' = "running"
  /\ heard' = [t \in Tids |-> {}]
  /\ call' = NoCall
  /\ UNCHANGED <<store, rwlock, operations, states, prepare, mu, held, commits, fatal,
                 submitted, transactions, handed>>

\* MakeCoordinator's recovery: a Query is answered and its reply kept
QueryAnswer(p) == [rpc |-> "QueryReply", tid |-> 0, to |-> p, Transactions |-> QueryReply(p)]

DeliverQuery == \E m \in msgs :
  /\ Running /\ m.rpc = "Query"
  /\ Query(m.to)
  /\ call' = NoCall
  /\ msgs' = (msgs \ {m}) \cup {QueryAnswer(m.to)}
  /\ UNCHANGED <<epoch, coord, task, submitted, transactions, applier, handed, heard>>

\* the participants whose Query reply has arrived, and the reply of p
Answered == {m.to : m \in {n \in msgs : n.rpc = "QueryReply"}}
View(p) == (CHOOSE m \in msgs : m.rpc = "QueryReply" /\ m.to = p).Transactions

\* the states the participants report for t in their Query replies
Reported(t) == {p \in Answered : t \in DOMAIN View(p)}
ReportedIn(t, S) == {p \in Reported(t) : View(p)[t].State \in S}

\* spec 4.2, Recovery: classification and action per tid
Classify(t) ==
  IF Reported(t) = {} THEN Stay(t)
  ELSE IF Reported(t) = ReportedIn(t, {stateCommitted})
          \/ Reported(t) = ReportedIn(t, {stateAborted}) THEN Stay(t)
  ELSE IF ReportedIn(t, {stateAborted, stateVotedNo}) # {} THEN ToAbort(t)
  ELSE IF ReportedIn(t, {stateCommitted}) # {}
  THEN ToCommit(t, ReportedIn(t, {statePreCommitted, stateCommitted}))
  ELSE IF ReportedIn(t, {statePreCommitted}) # {}
  THEN ToPreCommit(t, ReportedIn(t, {statePreCommitted, stateVotedYes}))
  ELSE IF ReportedIn(t, {stateVotedYes}) # {} THEN ToPrepare(t)
  ELSE Stay(t)

\* a recovery that ends on the first Query reply
RecoverEarly ==
  /\ Running /\ coord = "recovering"
  /\ Answered # {}
  /\ coord' = "running"
  /\ task' = [t \in Tids |-> Classify(t).task]
  /\ msgs' = UNION {Classify(t).send : t \in Tids}
  /\ call' = NoCall
  /\ UNCHANGED <<store, rwlock, operations, states, prepare, mu, held, commits, fatal,
                 epoch, submitted, transactions, applier, handed, heard>>

\* recovery ends once every participant has answered a Query
Recover ==
  /\ Running /\ coord = "recovering"
  /\ Answered = Servers
  /\ coord' = "running"
  /\ task' = [t \in Tids |-> Classify(t).task]
  /\ msgs' = UNION {Classify(t).send : t \in Tids}
  /\ call' = NoCall
  /\ UNCHANGED <<store, rwlock, operations, states, prepare, mu, held, commits, fatal,
                 epoch, submitted, transactions, applier, handed, heard>>

Next ==
  \/ ClientGet
  \/ ClientSet
  \/ Finish
  \/ DeliverPrepare
  \/ RunPrepareCheck
  \/ RunPrepareLoop
  \/ RunPrepareLock
  \/ RunPrepareUnlock
  \/ RunPrepareWake
  \/ RunPrepareFinish
  \/ DeliverPreCommit
  \/ DeliverCommit
  \/ RunCommit
  \/ DeliverAbort
  \/ RunAbort
  \/ Timeout
  \/ Emit
  \/ ApplierStep
  \/ Restart /\ epoch < MaxRestartsTwo
  \/ DeliverQuery
  \/ Recover

Spec == Init /\ [][Next]_vars

\* The steps that are not left to the environment: a request is delivered
\* (labrpc delivers to a connected server, and the harness reconnects), a
\* handler runs (the Go scheduler), a timer fires, a new coordinator completes
\* its recovery, a decided response is sent and the applier that has received
\* it applies it.  Crashes and client calls are not among them.
Forced ==
  \/ DeliverPrepare
  \/ RunPrepareCheck
  \/ RunPrepareLoop
  \/ RunPrepareLock
  \/ RunPrepareUnlock
  \/ RunPrepareWake
  \/ RunPrepareFinish
  \/ DeliverPreCommit
  \/ DeliverCommit
  \/ RunCommit
  \/ DeliverAbort
  \/ RunAbort
  \/ Timeout
  \/ Emit
  \/ ApplierStep
  \/ DeliverQuery
  \/ Recover

\* The system does not stop while one of these steps can change its state.
\* This asks less than fairness for each handler and request by itself; a
\* behaviour that comes to rest under it (its last state repeated for ever)
\* leaves none of them a step to take, and so is fair to each of them too.
Fairness == WF_vars(Forced)

FairSpec == Spec /\ Fairness

\* The restart tests of the README (TestRestartPreCommit to TestRestartMidCommit)
\* run one transaction at a time on keys of the participants, with a reliable
\* network: the runs of Next in which only transaction 1 has operations, none
\* of them on the key without an owner, and no reply is lost, under the same
\* fairness.  No Prepare handler finds a key without an item there, and none
\* is woken from a sleep in Lock() or RLock() (RunPrepareUnlock and
\* RunPrepareWake are never enabled).  The tests restart the coordinator when a
\* PreCommit or a Commit request is delivered (doNextPreCommit, doNextCommit):
\* before it has sent the response of the transaction.
Unanswered == handed = {} /\ transactions[1] = <<>>
OneTransaction ==
  /\ \A p \in Servers : operations'[p][2] = <<>>
  /\ \A p \in Servers : \A j \in 1..Len(operations'[p][1]) :
       operations'[p][1][j].Key \in Owned(p)
NextOne ==
  \/ ClientGet /\ OneTransaction
  \/ ClientSet /\ OneTransaction
  \/ Finish
  \/ DeliverPrepare
  \/ RunPrepareCheck
  \/ RunPrepareLoop
  \/ RunPrepareLock
  \/ RunPrepareFinish
  \/ DeliverPreCommit
  \/ DeliverCommitThen(FALSE)
  \/ RunCommitThen(FALSE)
  \/ DeliverAbortThen(FALSE)
  \/ RunAbortThen(FALSE)
  \/ Timeout
  \/ Emit
  \/ ApplierStep
  \/ Restart /\ Unanswered
  \/ DeliverQuery
  \/ Recover
FairSpecOne == Init /\ [][NextOne]_vars /\ Fairness

\* the transaction of these runs: transaction 2 has no operation in them and is
\* never finished, so that every statement about it holds with nothing to show
Single == {1}

\* The concurrency tests of the README (TestConcurrentDifferentKeys,
\* TestConcurrentReadSameKeys, TestConcurrentWriteSameKeys) log the operations
\* of each transaction before they finish it and run with a reliable network
\* and no crash: no reply is lost, the coordinator is not restarted, and a
\* Prepare round times out only while a Prepare handler of the transaction
\* waits for a lock: asleep in Lock() or RLock(), or in Lock() at the writers'
\* mutex that another writer has taken.  A batch has up to MaxBatchOps
\* operations (TestSerializability: every writer sets every key), all of them
\* on keys of the configuration, so that no Prepare handler finds a key
\* without an item (RunPrepareUnlock is never enabled).
Blocked(p, t) == \E h \in Slots :
  LET th == prepare[p][h] IN
  /\ th.tid = t
  /\ \/ th.pc \in {"wait", "rwait"}
     \/ /\ th.pc = "lock"
        /\ ~th.ops[th.i].IsGet
        /\ rwlock[p][th.ops[th.i].Key].wm
Waiting == \E t \in Tids :
  /\ task[t].phase = "prepare" /\ task'[t].phase = "abort"
  /\ \E p \in Servers : Blocked(p, t)
LoggingBatch(t) == ~submitted[t] /\ Logged(0) + Logged(1) < MaxBatchOps
BatchGet == \E t \in Tids, k \in {"x"} :
  /\ Running /\ LoggingBatch(t)
  /\ Get(KeyMap(k), t, k)
  /\ call' = NoCall
  /\ UNCHANGED sysvars
BatchSet == \E t \in Tids, k \in {"x", "y"} :
  /\ Running /\ LoggingBatch(t)
  /\ Set(KeyMap(k), t, k, t)
  /\ call' = NoCall
  /\ UNCHANGED sysvars
NextBatch ==
  \/ BatchGet
  \/ BatchSet
  \/ Finish
  \/ DeliverPrepare
  \/ RunPrepareCheck
  \/ RunPrepareLoop
  \/ RunPrepareLock
  \/ RunPrepareWake
  \/ RunPrepareFinish
  \/ DeliverPreCommit
  \/ DeliverCommitThen(FALSE)
  \/ RunCommitThen(FALSE)
  \/ DeliverAbortThen(FALSE)
  \/ RunAbortThen(FALSE)
  \/ Timeout /\ Waiting
  \/ Emit
  \/ ApplierStep
SpecBatch == Init /\ [][NextBatch]_vars

\* One participant that owns x and y and two transactions that each set both
\* keys, in either order, before Prepare is delivered for them: the symmetric
\* contention of spec section 5.
CallSetOnce == \E t \in Tids, k \in {"x", "y"} :
  /\ Running /\ Logged(SUT) < MaxBatchOps /\ Unprepared(SUT, t)
  /\ ~HasSetOn(SUT, t, k)
  /\ Set(SUT, t, k, t)
  /\ call' = Step("Set", SUT, t, 0, TRUE)
  /\ UNCHANGED sysvars
Contended == \A t \in Tids, k \in {"x", "y"} : HasSetOn(SUT, t, k)
NextContention ==
  \/ CallSetOnce
  \/ CallPrepare /\ Contended
  \/ StepPrepareCheck
  \/ StepPrepareLoop
  \/ StepPrepareLock
  \/ StepPrepareFinish
  \/ CallPreCommit
  \/ CallCommit
  \/ StepCommit
  \/ CallAbort
  \/ StepAbort
  \/ CallQuery
SpecContention == InitServer /\ [][NextContention]_vars

(***************************************************************************)
(* Properties.                                                             *)
(***************************************************************************)
\* the step just taken was a step of the handler rpc(t) at participant p
Did(rpc, p, t) == call'.rpc = rpc /\ call'.p = p /\ call'.tid = t

Terminal == {stateCommitted, stateAborted}
Voted == {stateVotedYes, statePreCommitted}

\* C1: atomicity.  No transaction is Committed at one participant and Aborted at
\* another, whatever the network loses, delays or repeats and whenever the
\* coordinator is restarted.
C1_Atomicity ==
  \A t \in Tids : \A p, q \in Servers :
    ~(states[p][t] = stateCommitted /\ states[q][t] = stateAborted)

\* C1 witness: a transaction with operations at both participants is Committed at
\* both, its commit having been completed by a restarted coordinator.
C1_Witness ==
  \E t \in Tids :
    /\ epoch > 0
    /\ \A p \in Servers : Len(operations[p][t]) > 0 /\ states[p][t] = stateCommitted
    /\ Len(transactions[t]) = 1 /\ transactions[t][1].committed

\* C2: every transaction handed to FinishTransaction gets exactly one ResponseMsg,
\* eventually and for good, when requests keep being delivered and timers fire
\* (FairSpec).  The obligation is stated for the runs in which the coordinator
\* does not crash, which the claim covers: a crash ends it here, so the formula
\* is weaker than the claim and its violation refutes the claim.
C2_ExactlyOneResponse ==
  \A t \in Tids :
    [](submitted[t]
         => <>[]((Len(transactions[t]) = 1 /\ applier = "running") \/ epoch > 0))

\* C3: no transaction ever has two ResponseMsg emitted for it, across coordinator
\* restarts: a ResponseMsg is emitted only for a tid that has none yet.
C3_AtMostOneResponse ==
  [][\A t \in Tids :
       (task[t].phase \in {"emitCommitted", "emitAborted"} /\ task'[t].phase = "done")
         => transactions[t] = <<>>]_vars

\* the ResponseMsg the step appends to the log of t, if it appends one
Emitted(t) == transactions'[t][Len(transactions'[t])]

\* the step is the coordinator's send of a ResponseMsg for t on its response
\* channel, and the message sent
HandsOver(t) == \E h \in handed' \ handed : h.msg.tid = t
HandedMsg(t) == (CHOOSE h \in handed' \ handed : h.msg.tid = t).msg

\* C4: when a ResponseMsg for tid is emitted, every participant that holds logged
\* operations of tid is Committed (committed = true) or Aborted (committed = false).
C4_ResponseAgreesWithStates ==
  [][\A t \in Tids :
       HandsOver(t)
         => \A p \in Servers :
              Len(operations[p][t]) > 0
                => states[p][t] = IF HandedMsg(t).committed
                                  THEN stateCommitted ELSE stateAborted]_vars

RECURSIVE SumHeld(_, _, _, _)
SumHeld(hd, k, mode, S) ==
  IF S = {} THEN 0
  ELSE LET t == CHOOSE t \in S : TRUE
       IN (IF mode = "r" THEN hd[t][k].r ELSE hd[t][k].w) + SumHeld(hd, k, mode, S \ {t})

\* an edge of the participant's state machine (spec section 3, invariant 1), with
\* the Abort handler's edges from VotedYes and PreCommitted of section 4.1
LegalEdge(a, b) ==
  \/ a = b
  \/ a \in {NoEntry, stateOperations}
       /\ b \in {stateOperations, stateVotedYes, stateVotedNo, stateAborted}
  \/ a = stateVotedYes /\ b \in {statePreCommitted, stateAborted}
  \/ a = statePreCommitted /\ b \in {stateCommitted, stateAborted}
  \/ a = stateVotedNo /\ b = stateAborted

\* C5: every change of a participant's per-tid state follows a legal path, and a
\* state that is Committed or Aborted never changes again.  (The Abort edges from
\* VotedYes and PreCommitted, which the claim's list leaves out, are allowed here:
\* the formula is weaker than the claim, so its violation refutes the claim.)
C5_LegalTransitions ==
  [][\A p \in Servers, t \in Tids : LegalEdge(states[p][t], states'[p][t])]_vars

\* C6: Abort(tid) at a participant whose state for tid is Committed is refused: no
\* step of the handler changes a state, a stored value or a lock, and none ends
\* in a fatal error.
C6_AbortCommittedRefused ==
  [][\A p \in Servers, t \in Tids :
       (states[p][t] = stateCommitted /\ Did("Abort", p, t))
         => /\ fatal' = NoFatal
            /\ states'[p][t] = stateCommitted
            /\ store' = store
            /\ rwlock' = rwlock]_vars

\* C7: every unlock a handler performs releases a lock its transaction holds in
\* that mode: a step never ends in an unlock of an unlocked mutex, and the reader
\* (the announced writer) a step takes off a key is a holding of the handler's
\* transaction.
C7_LocksReleasedOnce ==
  [][/\ fatal' = NoFatal
     /\ \A p \in Servers : \A k \in Owned(p) :
          /\ rwlock'[p][k].r < rwlock[p][k].r
               => SumHeld(held[p], k, "r", Tids) - SumHeld(held'[p], k, "r", Tids)
                    = rwlock[p][k].r - rwlock'[p][k].r
          /\ (rwlock[p][k].ann /\ ~rwlock'[p][k].ann)
               => SumHeld(held[p], k, "w", Tids) - SumHeld(held'[p], k, "w", Tids) = 1]_vars

\* C8: a transaction that is Committed or Aborted at a participant holds no read or
\* write lock on any key of that participant.
C8_TerminalHoldsNoLock ==
  \A p \in Servers, t \in Tids : \A k \in Owned(p) :
    states[p][t] \in Terminal => held[p][t][k] = NoHold

HasSet(p, t, k) == \E j \in 1..Len(operations[p][t]) :
                     ~operations[p][t][j].IsGet /\ operations[p][t][j].Key = k
HasGet(p, t, k) == \E j \in 1..Len(operations[p][t]) :
                     operations[p][t][j].IsGet /\ operations[p][t][j].Key = k

\* C9: a transaction in VotedYes or PreCommitted holds the write lock of every key it
\* sets and a read lock of every key it gets, so two such transactions never
\* conflict on a key.
C9_IsolationByLocking ==
  \A p \in Servers : \A k \in Owned(p) :
    /\ \A t \in Tids : states[p][t] \in Voted =>
          /\ HasSet(p, t, k) => (held[p][t][k].w >= 1 /\ rwlock[p][k].ann)
          /\ HasGet(p, t, k) => (held[p][t][k].r >= 1 /\ rwlock[p][k].r >= 1)
    /\ \A t1, t2 \in Tids :
          (t1 # t2 /\ states[p][t1] \in Voted /\ states[p][t2] \in Voted /\ HasSet(p, t1, k))
            => ~(HasSet(p, t2, k) \/ HasGet(p, t2, k))

\* C10: a stored value changes only in a step of the Commit handler on a
\* transaction that is PreCommitted, and the handler that has run its loop
\* returns with the transaction moved from PreCommitted to Committed; no other
\* handler step changes a stored value; and a transaction that is Aborted has
\* left no value in the store (a Set writes the id of its transaction, so a
\* stored value names the transaction that wrote it).
C10_ValueChangesOnlyInCommit ==
  [][\A p \in Servers :
       /\ store'[p] # store[p]
            => \E t \in Tids : /\ Did("Commit", p, t)
                                /\ mu[p].rpc = "Commit" /\ mu[p].tid = t
                                /\ states[p][t] = statePreCommitted
       /\ \A t \in Tids :
            (Did("Commit", p, t) /\ mu[p].rpc = "Commit" /\ call'.ret)
              => /\ states[p][t] = statePreCommitted
                 /\ states'[p][t] = stateCommitted
       /\ \A t \in Tids : \A k \in Owned(p) :
            states'[p][t] = stateAborted => store'[p][k] # t]_vars

\* the value of the last Set on k that t logged at p
SetValue(p, t, k) ==
  LET S == {j \in 1..Len(operations[p][t]) :
              ~operations[p][t][j].IsGet /\ operations[p][t][j].Key = k}
  IN operations[p][t][CHOOSE j \in S : \A i \in S : i <= j].Value

\* t1 reached Committed at p before t2 did
CommittedBefore(p, t1, t2) ==
  \E i, j \in 1..Len(commits[p]) : i < j /\ commits[p][i] = t1 /\ commits[p][j] = t2

\* t1 committed a Set on k at p, and t2, which only reads k, committed there later;
\* with two transactions no other write to k comes between
WrittenThenRead(p, t1, t2, k) ==
  /\ t1 # t2
  /\ HasSet(p, t1, k) /\ HasGet(p, t2, k) /\ ~HasSet(p, t2, k)
  /\ CommittedBefore(p, t1, t2)

\* C11 as claimed: a transaction that reads k after a committed write of v to k,
\* with no write between, and is reported committed, has readValues[k] = v.
C11_RoundTrip ==
  \A p \in Servers, t1, t2 \in Tids : \A k \in Keys[p] :
    WrittenThenRead(p, t1, t2, k)
      => \A i \in 1..Len(transactions[t2]) :
           transactions[t2][i].committed
             => /\ k \in DOMAIN transactions[t2][i].readValues
                /\ transactions[t2][i].readValues[k] = SetValue(p, t1, k)

\* C11: when the coordinator sends the ResponseMsg of a committed transaction
\* that read k after a committed write of v to k, with no write between, the
\* message has readValues[k] = v, provided the reply of the Commit handler that
\* committed the transaction at the owner of k has reached the coordinator
\* instance that sends the message; without that reply the message has no entry
\* for k or the same value.  A ResponseMsg in the log never has another value.
C11_RoundTripWhenHeard ==
  [][\A p \in Servers, t1, t2 \in Tids : \A k \in Keys[p] :
       WrittenThenRead(p, t1, t2, k)
         => /\ (HandsOver(t2) /\ HandedMsg(t2).committed)
                 => /\ p \in heard[t2] => k \in DOMAIN HandedMsg(t2).readValues
                    /\ k \in DOMAIN HandedMsg(t2).readValues
                         => HandedMsg(t2).readValues[k] = SetValue(p, t1, k)
            /\ \A i \in 1..Len(transactions[t2]) :
                 (transactions[t2][i].committed /\ k \in DOMAIN transactions[t2][i].readValues)
                   => transactions[t2][i].readValues[k] = SetValue(p, t1, k)]_vars

\* C11 witness: the writer and the reader are both reported committed and the
\* reader's ResponseMsg carries the written value.
C11_Witness ==
  \E p \in Servers, t1, t2 \in Tids : \E k \in Keys[p] :
    /\ WrittenThenRead(p, t1, t2, k)
    /\ Len(transactions[t1]) = 1 /\ transactions[t1][1].committed
    /\ Len(transactions[t2]) = 1 /\ transactions[t2][1].committed
    /\ k \in DOMAIN transactions[t2][1].readValues
    /\ transactions[t2][1].readValues[k] = SetValue(p, t1, k)

\* the keys t reads with Get at the participant that owns them
GetKeys(t) == {k \in AllKeys : k \in Keys[KeyMap(k)] /\ HasGet(KeyMap(k), t, k)}

HasCommitted(p, t) == \E j \in 1..Len(commits[p]) : commits[p][j] = t

\* the value of k stored at p when t committed there: the last Set on k of the
\* last transaction that committed at p before t, or the value of a fresh item
StoredBefore(p, t, k) ==
  LET j == CHOOSE j \in 1..Len(commits[p]) :
             commits[p][j] = t /\ \A i \in 1..(j - 1) : commits[p][i] # t
      W == {i \in 1..(j - 1) : HasSet(p, commits[p][i], k)}
  IN IF W = {} THEN Nil
     ELSE SetValue(p, commits[p][CHOOSE i \in W : \A h \in W : h <= i], k)

\* the value the last Get on k of t reads when t's operations are executed in
\* order on that stored value
ReadValue(p, t, k) ==
  LET ops == operations[p][t]
      G == {j \in 1..Len(ops) : ops[j].IsGet /\ ops[j].Key = k}
      g == CHOOSE j \in G : \A i \in G : i <= j
      S == {j \in 1..(g - 1) : ~ops[j].IsGet /\ ops[j].Key = k}
  IN IF S = {} THEN StoredBefore(p, t, k)
     ELSE ops[CHOOSE j \in S : \A i \in S : i <= j].Value

\* C12 as claimed: the ResponseMsg of a committed transaction has one entry for
\* every key the transaction read and no other, with the value read at the commit.
C12_ReadValuesComplete ==
  \A t \in Tids : \A i \in 1..Len(transactions[t]) :
    transactions[t][i].committed
      => /\ DOMAIN transactions[t][i].readValues = GetKeys(t)
         /\ \A k \in GetKeys(t) :
              /\ HasCommitted(KeyMap(k), t)
              /\ transactions[t][i].readValues[k] = ReadValue(KeyMap(k), t, k)

\* C12: when the coordinator sends the ResponseMsg of a committed transaction,
\* the message has entries only for keys the transaction read, each with the
\* value read when the owning participant committed, and it has an entry for
\* every key read at a participant whose reply of the Commit handler that
\* committed the transaction has reached the coordinator instance that sends
\* the message.  A ResponseMsg in the log has no other entries either.
C12_ReadValuesWhenHeard ==
  [][\A t \in Tids :
       /\ (HandsOver(t) /\ HandedMsg(t).committed)
            => /\ DOMAIN HandedMsg(t).readValues \subseteq GetKeys(t)
               /\ \A k \in DOMAIN HandedMsg(t).readValues :
                    /\ HasCommitted(KeyMap(k), t)
                    /\ HandedMsg(t).readValues[k] = ReadValue(KeyMap(k), t, k)
               /\ \A k \in GetKeys(t) :
                    KeyMap(k) \in heard[t] => k \in DOMAIN HandedMsg(t).readValues
       /\ \A i \in 1..Len(transactions[t]) :
            transactions[t][i].committed
              => /\ DOMAIN transactions[t][i].readValues \subseteq GetKeys(t)
                 /\ \A k \in DOMAIN transactions[t][i].readValues :
                      /\ HasCommitted(KeyMap(k), t)
                      /\ transactions[t][i].readValues[k] = ReadValue(KeyMap(k), t, k)]_vars

\* C12 witness: a coordinator that was restarted emits a committed ResponseMsg
\* that has an entry for every key the transaction read, one of them a value
\* written by an earlier transaction.
C12_Witness ==
  \E t \in Tids :
    /\ epoch > 0
    /\ Len(transactions[t]) = 1 /\ transactions[t][1].committed
    /\ GetKeys(t) # {}
    /\ DOMAIN transactions[t][1].readValues = GetKeys(t)
    /\ \E k \in GetKeys(t) : transactions[t][1].readValues[k] # Nil

\* the coordinator has decided Abort for t: its task is on the Abort path, or
\* it has sent the ResponseMsg of that decision, which is with the applier or
\* in the log
AbortDecided(t) ==
  \/ task[t].phase \in {"abort", "emitAborted"}
  \/ /\ task[t].phase = "done"
     /\ \/ \E h \in handed : h.msg.tid = t /\ ~h.msg.committed
        \/ Len(transactions[t]) > 0 /\ ~transactions[t][Len(transactions[t])].committed

\* the step is the return of a Prepare handler of t at p, called by the running
\* coordinator
Returns(p, t) == \E h \in Slots :
  /\ prepare[p][h].pc # "idle" /\ prepare[p][h].tid = t /\ prepare[p][h].ep = epoch
  /\ prepare'[p][h] = IdleThread /\ fatal' = NoFatal

\* the step is the return of a Prepare handler of t at p, called by the running
\* coordinator, with the vote No
ReturnsNo(p, t) == \E h \in Slots :
  LET th == prepare[p][h] IN
  /\ th.tid = t /\ th.ep = epoch
  /\ prepare'[p][h] = IdleThread /\ fatal' = NoFatal
  /\ \/ th.pc = "wunlock"
     \/ th.pc = "check" /\ StateOf(p, t) \in {stateVotedNo, stateAborted}
     \/ th.pc = "noitem"

\* the step handles the request rpc(t) sent to p by the running coordinator
Handled(rpc, t, p) ==
  /\ Req(rpc, t, p) \in msgs /\ Req(rpc, t, p) \notin msgs'
  /\ epoch' = epoch /\ coord' = coord

\* the step brings the last reply the round of t waits for: the reply of p to
\* Prepare, every other participant having answered, or the reply of p to
\* PreCommit, every other relevant participant having answered
LastReply(t) == \E p \in Servers \ task[t].got :
  IF task[t].phase = "prepare"
  THEN /\ task[t].got \cup {p} = Servers
       /\ Handled("Prepare", t, p) \/ Returns(p, t)
  ELSE /\ task[t].got \cup {p} = task[t].R
       /\ Handled("PreCommit", t, p)

\* the step ends the Prepare or PreCommit round of t before every reply the
\* round waits for is in: an RPC of the round has timed out
TimesOut(t) ==
  /\ task[t].phase \in {"prepare", "precommit"}
  /\ task'[t].phase # task[t].phase
  /\ ~LastReply(t)
  /\ \A p \in Servers : ~(task[t].phase = "prepare" /\ p \notin task[t].got /\ ReturnsNo(p, t))

\* C13: while the coordinator has not crashed, a No vote that arrives in the
\* Prepare round makes it decide Abort, and so does a timeout: a Prepare or
\* PreCommit round that ends before every reply is in ends in the Abort
\* decision.  Once Abort is decided the decision stands: the ResponseMsg the
\* coordinator sends, and the one that reaches the log, has committed = false,
\* and no participant reaches Committed for that tid.
C13_AbortDecision ==
  [][\A t \in Tids :
       epoch' = 0 =>
         /\ \A p \in Servers :
              (/\ task[t].phase = "prepare" /\ p \notin task[t].got
               /\ ReturnsNo(p, t))
                => task'[t].phase = "abort"
         /\ TimesOut(t)
              => /\ task'[t].phase = "abort"
                 /\ \A p \in Servers : Req("Abort", t, p) \in msgs'
         /\ AbortDecided(t)
              => /\ AbortDecided(t)'
                 /\ \A p \in Servers : states'[p][t] # stateCommitted
                 /\ HandsOver(t) => ~HandedMsg(t).committed
                 /\ transactions'[t] # transactions[t] => ~Emitted(t).committed]_vars

\* C13 witness: with no crash, a participant voted No on a key it does not own, the
\* transaction was aborted there and reported with committed = false.
C13_Witness ==
  \E t \in Tids, p \in Servers :
    /\ epoch = 0
    /\ HasGet(p, t, "u") /\ states[p][t] = stateAborted
    /\ Len(transactions[t]) = 1 /\ ~transactions[t][1].committed

\* C14: a participant without logged operations for tid answers Prepare with
\* relevant = false and changes nothing; it is not in the relevant set, PreCommit
\* and Commit go to relevant participants only, and the PreCommit round is over
\* as soon as the relevant participants have answered.
C14_Relevance ==
  [][\A t \in Tids, p \in Servers :
       /\ (Handled("Prepare", t, p) /\ Len(operations[p][t]) = 0)
            => /\ <<store, rwlock, operations, states, prepare, mu, held, fatal>>' =
                    <<store, rwlock, operations, states, prepare, mu, held, fatal>>
               /\ p \notin task'[t].R
       /\ p \in task'[t].R => Len(operations'[p][t]) > 0
       /\ \A m \in msgs' :
            (m.rpc \in {"PreCommit", "Commit"} /\ m.tid = t /\ m.to = p)
              => Len(operations'[p][t]) > 0
       /\ (/\ Handled("PreCommit", t, p) /\ task[t].phase = "precommit"
           /\ p \notin task[t].got /\ task[t].got \cup {p} = task[t].R)
            => task'[t].phase = "commit"]_vars

\* C14 witness: a transaction is reported committed while one participant holds no
\* operation of it and was never asked more than Prepare.
C14_Witness ==
  \E t \in Tids, p, q \in Servers :
    /\ Len(operations[q][t]) = 0 /\ states[q][t] = NoEntry
    /\ Len(operations[p][t]) > 0 /\ states[p][t] = stateCommitted
    /\ Len(transactions[t]) = 1 /\ transactions[t][1].committed

\* C15: a coordinator instance that has entered the Commit round for tid stays in
\* it until every relevant participant has replied to Commit: it sends no
\* Abort(tid) and no ResponseMsg for tid meanwhile; the ResponseMsg it then
\* sends has committed = true and follows a Commit reply of every relevant
\* participant, and its task for tid ends with that message only.
C15_CommitDecisionKept ==
  [][\A t \in Tids :
       (epoch' = epoch /\ task[t].phase \in {"commit", "emitCommitted"})
         => /\ task'[t].phase \in {"commit", "emitCommitted", "done"}
            /\ \A m \in msgs' : ~(m.rpc = "Abort" /\ m.tid = t)
            /\ task[t].phase = "commit"
                 => /\ ~HandsOver(t)
                    /\ task'[t].phase # "done"
                    /\ task'[t].phase = "emitCommitted" => task'[t].got = task[t].R
            /\ HandsOver(t)
                 => /\ HandedMsg(t).committed
                    /\ task[t].got = task[t].R
            /\ task'[t].phase = "done" => HandsOver(t)]_vars

\* C15 witness: the Commit round is still waiting for one relevant participant
\* while another has already committed, and nothing has been emitted.
C15_Witness ==
  \E t \in Tids, p, q \in Servers :
    /\ task[t].phase = "commit" /\ task[t].R = {p, q} /\ p # q
    /\ p \in task[t].got /\ states[p][t] = stateCommitted
    /\ q \notin task[t].got /\ states[q][t] = statePreCommitted
    /\ transactions[t] = <<>> /\ handed = {}


\* p has reached Committed for t at some moment
ReachedCommitted(p, t) == \E i \in 1..Len(commits[p]) : commits[p][i] = t

\* t has been reported committed, and every participant holding operations of t
\* has reached Committed for it
CommitDelivered(t) ==
  /\ \E i \in 1..Len(transactions[t]) : transactions[t][i].committed
  /\ \A p \in Servers : Len(operations[p][t]) > 0 => ReachedCommitted(p, t)

\* C16: once the Commit round for tid has started, every relevant participant
\* eventually reaches Committed and a committed ResponseMsg is eventually emitted,
\* when requests keep being delivered (FairSpecOne).  The obligation is stated for a
\* coordinator that is not restarted after the round has started, for runs that
\* no fatal error of a participant ends, and for a ResponseMsg that the applier
\* of the test harness takes (it has not ended on a repeated message), so the
\* formula is weaker than the claim.
C16_CommitDelivered ==
  \A t \in Single, e \in 0..MaxRestarts :
    []((task[t].phase = "commit" /\ epoch = e)
         => <>(CommitDelivered(t) \/ epoch # e \/ ~Running \/ applier = "ended"))


\* C17: when the coordinator decides Abort for tid, Abort(tid) goes to every
\* participant; while the decision stands, Abort(tid) stays in flight to each
\* participant that has not acknowledged it; an acknowledgement is counted only
\* in a step that runs the Abort handler of that participant; and the
\* coordinator sends ResponseMsg{tid, committed = false} only after every
\* participant has acknowledged, and nothing for tid before.
C17_AbortPath ==
  [][\A t \in Tids :
       /\ (task[t].phase # "abort" /\ task'[t].phase = "abort")
            => \A p \in Servers : Req("Abort", t, p) \in msgs'
       /\ task'[t].phase = "abort"
            => \A p \in Servers \ task'[t].got : Req("Abort", t, p) \in msgs'
       /\ (epoch' = epoch /\ task[t].phase = "abort")
            => /\ task'[t].phase \in {"abort", "emitAborted"}
               /\ ~HandsOver(t)
               /\ \A p \in task'[t].got \ task[t].got :
                    /\ Req("Abort", t, p) \in msgs \ msgs'
                    /\ states'[p][t] \in {NoEntry, stateAborted}
               /\ task'[t].phase = "emitAborted" => task'[t].got = Servers
       /\ (HandsOver(t) /\ ~HandedMsg(t).committed)
            => task[t].phase = "emitAborted" /\ task[t].got = Servers]_vars

\* C17 witness: an aborted transaction is reported after a participant that holds
\* none of its operations, and one that holds some, have acknowledged Abort
C17_Witness ==
  \E t \in Tids, p, q \in Servers :
    /\ Len(operations[p][t]) > 0 /\ states[p][t] = stateAborted
    /\ Len(operations[q][t]) = 0
    /\ Len(transactions[t]) = 1 /\ ~transactions[t][1].committed


\* C18: a newly constructed coordinator is recovering until every participant has
\* answered a Query.  Until then only Query requests and their replies are in
\* flight, a Query stays in flight to each participant that has not answered, no
\* transaction is being worked on, no participant enters a Prepare, PreCommit,
\* Commit or Abort handler (the handlers that run are those the crashed
\* instance had started), the coordinator sends no ResponseMsg and no
\* FinishTransaction is accepted; recovery ends only with every answer in.  A
\* ResponseMsg that reaches the log meanwhile is one that an earlier instance
\* had sent and its applier still held.
C18_RecoveryGating ==
  [][/\ coord' = "recovering"
          => /\ \A m \in msgs' : m.rpc \in {"Query", "QueryReply"}
             /\ \A p \in Servers \ Answered' : Req("Query", 0, p) \in msgs'
             /\ \A t \in Tids : task'[t] = IdleTask
             /\ \A p \in Servers, h \in Slots :
                  prepare'[p][h].pc # "idle" => prepare'[p][h].ep < epoch'
             /\ \A p \in Servers :
                  mu'[p].rpc \in {"Abort", "Commit"} => mu'[p].ep < epoch'
     /\ coord = "recovering"
          => /\ handed' \subseteq handed
             /\ transactions' # transactions
                  => \E h \in handed : h.ep < epoch /\ handed' = handed \ {h}
             /\ submitted' = submitted
             /\ \A p \in Servers, t \in Tids :
                  states'[p][t] = statePreCommitted => states[p][t] = statePreCommitted
             /\ coord' = "running" => Answered = Servers]_vars

\* C18 witness: during a recovery one participant has answered its Query and the
\* other has not, while a submitted transaction waits for its outcome
C18_Witness ==
  \E t \in Tids, p, q \in Servers :
    /\ coord = "recovering"
    /\ p \in Answered /\ q \notin Answered
    /\ submitted[t] /\ transactions[t] = <<>>
    /\ states[p][t] = statePreCommitted

\* the participants that hold operations of t
RelevantSet(t) == {p \in Servers : Len(operations[p][t]) > 0}

\* every relevant participant has voted Yes for t and no Prepare handler runs
VotedYesAll(t) ==
  /\ submitted[t] /\ RelevantSet(t) # {}
  /\ \A p \in Servers, h \in Slots : prepare[p][h].pc = "idle"
  /\ \A p \in RelevantSet(t) :
       states[p][t] \in {stateVotedYes, statePreCommitted, stateCommitted}

\* a new coordinator has just been made, after every relevant participant has
\* voted Yes for t and before a ResponseMsg for t was emitted, and no
\* participant is in an Abort or Commit handler that the crashed coordinator
\* had started
RestartedAfterVotes(t) ==
  /\ coord = "recovering" /\ Answered = {}
  /\ VotedYesAll(t) /\ transactions[t] = <<>>
  /\ \A p \in Servers : mu[p] = NoHolder

\* the coordinator is on the Abort path for t or has reported t aborted
AbortDecidedFor(t) ==
  \/ task[t].phase \in {"abort", "emitAborted"}
  \/ \E i \in 1..Len(transactions[t]) : ~transactions[t][i].committed

\* C19: after a restart that follows the Yes votes of every relevant participant
\* and precedes the ResponseMsg, tid is eventually reported committed and every
\* relevant participant reaches Committed, when requests keep being delivered
\* (FairSpecOne).  The obligation is stated for a restart placed before the last
\* relevant participant has committed, with no Abort or Commit of the crashed
\* coordinator under way at a participant; it ends when the new coordinator is
\* itself restarted, and when one of its timers fires and Abort is decided (a
\* participant that was not reachable in time): the formula is weaker than the
\* claim.
C19_RestartCommits ==
  \A t \in Single, e \in 1..MaxRestarts :
    []((/\ RestartedAfterVotes(t) /\ epoch = e
        /\ \E p \in RelevantSet(t) : states[p][t] # stateCommitted)
         => <>(CommitDelivered(t) \/ AbortDecidedFor(t) \/ epoch # e))

\* a new coordinator has just been made, after FinishTransaction(t) and before a
\* ResponseMsg for t, while some participant is in one of the states S for t
CrashedWith(t, S) ==
  /\ coord = "recovering" /\ Answered = {}
  /\ submitted[t] /\ transactions[t] = <<>>
  /\ \E p \in Servers : states[p][t] \in S

\* C20 (P5): when the coordinator is restarted between FinishTransaction(tid)
\* and the ResponseMsg, and a participant had gone through PreCommitted for tid
\* before the crash, tid is never aborted afterwards.  The obligation is stated
\* for a participant that is Committed at the restart, a case of the claim: the
\* formula is weaker than the claim.
C20_CommittedNeverAborts ==
  \A t \in Single :
    [](CrashedWith(t, {stateCommitted}) => [](~AbortDecidedFor(t)))


\* the recovery of coordinator instance e has every Query reply, and some
\* participant reports Aborted or VotedNo for t
RecoveryFindsAbort(t, e) ==
  /\ coord = "recovering" /\ Answered = Servers /\ epoch = e
  /\ ReportedIn(t, {stateAborted, stateVotedNo}) # {}

\* p holds no lock for t
HoldsNoLock(p, t) == \A k \in Owned(p) : held[p][t][k] = NoHold

\* C21: when the recovery finds a participant Aborted or VotedNo for tid, every
\* participant that is VotedYes or PreCommitted for tid at that moment ends
\* Aborted, holding no lock for tid, when requests keep being delivered
\* (FairSpecOne).  The obligation is taken for the recovery that follows the
\* last restart of the run, which no further restart interrupts: the formula is
\* weaker than the claim.
C21_RecoveryAborts ==
  \A t \in Single, p \in Servers :
    []((RecoveryFindsAbort(t, MaxRestarts)
          /\ p \in ReportedIn(t, {stateVotedYes, statePreCommitted}))
         => <>[](states[p][t] = stateAborted /\ HoldsNoLock(p, t)))


\* C22: a Query reply has an entry for every transaction with a logged Get or
\* Set, carrying its current state (Operations as long as no Prepare has set
\* one) and its whole operation list, and the handler changes no state.
C22_QueryReportsKnown ==
  [][\A p \in Servers :
       (call'.rpc = "Query" /\ call'.p = p)
         => /\ \A t \in Tids :
                 Len(operations[p][t]) > 0
                   => /\ t \in DOMAIN call'.Transactions
                      /\ call'.Transactions[t].State = StateOf(p, t)
                      /\ call'.Transactions[t].Operations = operations[p][t]
            /\ UNCHANGED <<store, rwlock, operations, states, prepare, mu, held, fatal>>]_vars


\* the number of Gets (isGet) or Sets of key k in the operation list ops
OpCount(ops, k, isGet) ==
  Cardinality({j \in 1..Len(ops) : ops[j].Key = k /\ ops[j].IsGet = isGet})

\* a Prepare(t) handler of p is between its state check and its return
InPrepare(p, t) == \E h \in Slots : prepare[p][h].pc # "idle" /\ prepare[p][h].tid = t

\* C23: once every Prepare(tid) handler has returned and the state is VotedYes,
\* the transaction holds no lock a second time: at most one read lock for each
\* logged Get of a key and one write lock for each logged Set, however many
\* Prepare(tid) requests were handled, one after the other or at the same time.
\* (The claim says exactly once; the formula is weaker, so its violation refutes
\* the claim.)
C23_PrepareIdempotent ==
  \A p \in Servers, t \in Tids :
    (states[p][t] = stateVotedYes /\ ~InPrepare(p, t))
      => \A k \in Owned(p) :
           /\ held[p][t][k].r <= OpCount(operations[p][t], k, TRUE)
           /\ held[p][t][k].w <= OpCount(operations[p][t], k, FALSE)


\* the lock the operation op of transaction t asks for at participant p is
\* held by another transaction in a mode that excludes it
Conflict(p, t, op) ==
  /\ IF op.IsGet THEN rwlock[p][op.Key].ann
     ELSE rwlock[p][op.Key].ann \/ rwlock[p][op.Key].r > 0
  /\ \E u \in Tids \ {t} :
       \/ held[p][u][op.Key].w > 0
       \/ ~op.IsGet /\ held[p][u][op.Key].r > 0

\* C24: a Prepare handler that calls RLock() or Lock() on a lock in conflict does
\* not wait: the step it takes there sets VotedNo, returns relevant = true,
\* vote = no and leaves the transaction without a lock.
C24_ConflictVotesNo ==
  [][\A p \in Servers, h \in Slots :
       LET th == prepare[p][h] IN
       (/\ th.pc = "lock"
        /\ Conflict(p, th.tid, th.ops[th.i])
        /\ prepare'[p][h] # th)
         => /\ prepare'[p][h] = IdleThread
            /\ states'[p][th.tid] = stateVotedNo
            /\ call' = PrepareReply(p, th.tid, th.ep, TRUE, FALSE)
            /\ HoldsNoLock(p, th.tid)']_vars


\* C28: Abort(tid) at a participant that has logged operations for tid and has
\* processed no Prepare(tid) sets the state to Aborted and touches no lock.
C28_AbortBeforePrepare ==
  [][\A p \in Servers, t \in Tids :
       (/\ Len(operations[p][t]) > 0
        /\ StateOf(p, t) = stateOperations /\ ~InPrepare(p, t)
        /\ HoldsNoLock(p, t)
        /\ Did("Abort", p, t))
         => /\ call'.ret
            /\ states'[p][t] = stateAborted
            /\ rwlock' = rwlock /\ held' = held]_vars


\* the handlers a coordinator may deliver twice
Repeatable == {"PreCommit", "Commit", "Abort"}

\* C29: a PreCommit, Commit or Abort of tid that a participant handles directly
\* after it has returned from the same request changes no state, stored value,
\* lock or holding and returns; the repeated Commit returns no read value.
C29_DuplicateHarmless ==
  [][\A p \in Servers, t \in Tids, rpc \in Repeatable :
       (/\ call.rpc = rpc /\ call.p = p /\ call.tid = t /\ call.ret
        /\ Did(rpc, p, t))
         => /\ call'.ret
            /\ states' = states /\ store' = store
            /\ rwlock' = rwlock /\ held' = held /\ mu' = mu
            /\ fatal' = fatal /\ commits' = commits
            /\ rpc = "Commit" => call'.ReadValues = <<>>]_vars

\* a Commit has returned no read value for a Committed transaction that has
\* read a key of the participant: the Commit that applied it returned the value,
\* this one is a repetition
C29_Witness ==
  /\ call.rpc = "Commit" /\ call.ret /\ call.p = SUT
  /\ call.tid \in Tids
  /\ states[SUT][call.tid] = stateCommitted
  /\ \E j \in 1..Len(operations[SUT][call.tid]) :
       /\ operations[SUT][call.tid][j].IsGet
       /\ operations[SUT][call.tid][j].Key \in Owned(SUT)
  /\ call.ReadValues = <<>>


\* C30: a PreCommit of a transaction that is not VotedYes and a Commit of a
\* transaction that is not PreCommitted (a tid the participant does not know
\* included) change no state, stored value, lock or holding; both return, the
\* Commit with no read value.
C30_OutOfStateNoOp ==
  [][\A p \in Servers, t \in Tids :
       /\ (states[p][t] # stateVotedYes /\ Did("PreCommit", p, t))
            => /\ call'.ret
               /\ states' = states /\ store' = store
               /\ rwlock' = rwlock /\ held' = held /\ mu' = mu /\ fatal' = fatal
       /\ (states[p][t] # statePreCommitted /\ Did("Commit", p, t))
            => /\ call'.ret /\ call'.ReadValues = <<>>
               /\ states' = states /\ store' = store
               /\ rwlock' = rwlock /\ held' = held /\ mu' = mu /\ fatal' = fatal
               /\ commits' = commits]_vars

\* a Commit has just returned at a participant where the transaction is VotedYes
\* and holds a lock: it arrived without the PreCommit before it
C30_Witness ==
  /\ call.rpc = "Commit" /\ call.ret /\ call.p = SUT /\ call.tid \in Tids
  /\ states[SUT][call.tid] = stateVotedYes
  /\ ~HoldsNoLock(SUT, call.tid)
  /\ call.ReadValues = <<>>


\* the ResponseMsg of t has been delivered; it reports commit
Responded(t) == Len(transactions[t]) > 0
RespondedCommitted(t) == Responded(t) /\ transactions[t][1].committed

\* the transactions of the batch: those with a logged operation
Batch == {t \in Tids : \E p \in Servers : Len(operations[p][t]) > 0}

\* every transaction of the batch wrote key k and nothing else
WritersOf(k) ==
  /\ Cardinality(Batch) > 1
  /\ \A t \in Batch : \A p \in Servers : \A j \in 1..Len(operations[p][t]) :
       ~operations[p][t][j].IsGet /\ operations[p][t][j].Key = k

\* the batch is over: every response is delivered, no request is in flight and
\* no handler is running
BatchOver ==
  /\ Batch # {}
  /\ \A t \in Batch : Responded(t) /\ task[t].phase = "done"
  /\ msgs = {}
  /\ \A p \in Servers : mu[p] = NoHolder
  /\ \A p \in Servers, h \in Slots : prepare[p][h].pc = "idle"

\* C25: when a batch of concurrent writers of one key is over, one of them is
\* reported committed, and the aborted ones hold no lock of the key, so that
\* the writers of a later batch can lock it.
C25_OneWriterCommits ==
  \A k \in {"x", "y"} :
    (WritersOf(k) /\ BatchOver)
      => /\ \E t \in Batch : RespondedCommitted(t)
         /\ \A t \in Batch : ~RespondedCommitted(t) => HoldsNoLock(KeyMap(k), t)


\* the keys of the operations logged for t, and whether t only reads
KeysOf(t) == {k \in AllKeys : HasGet(KeyMap(k), t, k) \/ HasSet(KeyMap(k), t, k)}
ReadOnly(t) == \A k \in KeysOf(t) : ~HasSet(KeyMap(k), t, k)

\* the lock sets of the two transactions are compatible: the keys are stored
\* and no key of one is written by one and touched by the other
Compatible ==
  /\ Cardinality(Batch) > 1
  /\ \A t \in Batch : \A k \in KeysOf(t) : k \in Keys[KeyMap(k)]
  /\ \A t \in Batch, u \in Batch :
       \/ t = u
       \/ KeysOf(t) \cap KeysOf(u) = {}
       \/ ReadOnly(t) /\ ReadOnly(u)

\* C26: concurrent transactions with compatible lock sets (disjoint keys, or
\* Gets of the same key), finished together on a reliable network, are not
\* aborted: the coordinator never decides Abort for one of them, and every
\* response it delivers for one of them reports commit.
C26_CompatibleCommit ==
  \A t \in Tids :
    (Compatible /\ t \in Batch)
      => /\ task[t].phase \notin {"abort", "emitAborted"}
         /\ Responded(t) => RespondedCommitted(t)


\* t is a writer of TestSerializability: it sets x and y to its own id
Writer(t) ==
  /\ operations[0][t] = <<SetOp("x", t)>>
  /\ operations[1][t] = <<SetOp("y", t)>>

\* the batch consists of writers and every response has been delivered
WritersResponded ==
  /\ Batch # {}
  /\ \A t \in Batch : Writer(t) /\ Responded(t)

\* C27: when every writer of a batch that sets x and y to its own id has its
\* response, x and y hold the same value: the id of a writer that is reported
\* committed, or the value they had before the batch when none is.  This is what
\* a committed transaction that reads x and y afterwards is given.
C27_Serializable ==
  WritersResponded
    => /\ store[0]["x"] = store[1]["y"]
       /\ IF \E t \in Batch : RespondedCommitted(t)
          THEN \E t \in Batch : RespondedCommitted(t) /\ store[0]["x"] = t
          ELSE store[0]["x"] = Nil

\* both writers are reported committed, and x and y hold the id of one of them
C27_Witness ==
  /\ WritersResponded /\ Batch = Tids
  /\ \A t \in Tids : RespondedCommitted(t)
  /\ store[0]["x"] \in Tids /\ store[1]["y"] = store[0]["x"]


\* no other Prepare handler of the transaction of handler h runs at p
OnlyHandler(p, h) == \A g \in Slots \ {h} : prepare[p][g].tid # prepare[p][h].tid

\* C36: a Prepare handler that meets a key the participant does not own sets
\* VotedNo and, when it has taken no lock, returns relevant = true, vote = no;
\* otherwise every unlock call of its release loop gives back one lock in the
\* mode it was acquired (one reader less for a Get, the writer gone for a Set),
\* leaves every other lock alone and ends in no fatal unlock, and the last step
\* of the loop returns relevant = true, vote = no.
C36_VoteNoReleasesLocks ==
  [][\A p \in Servers, h \in Slots :
       LET th == prepare[p][h] IN
       /\ (/\ th.pc = "noitem"
           /\ OnlyHandler(p, h)
           /\ Did("Prepare", p, th.tid)
           /\ prepare'[p][h] # th)
            => /\ fatal' = NoFatal
               /\ states'[p][th.tid] = stateVotedNo
               /\ rwlock' = rwlock
               /\ th.i = 1 => call' = PrepareReply(p, th.tid, th.ep, TRUE, FALSE)
       /\ (/\ th.pc = "unlock"
           /\ OnlyHandler(p, h)
           /\ Did("Prepare", p, th.tid)
           /\ prepare'[p][h] # th \/ fatal' # fatal)
            => LET op == th.ops[th.i] IN
               /\ fatal' = NoFatal
               /\ rwlock'[p][op.Key].r
                    = rwlock[p][op.Key].r - (IF op.IsGet THEN 1 ELSE 0)
               /\ rwlock'[p][op.Key].ann
                    = IF op.IsGet THEN rwlock[p][op.Key].ann ELSE FALSE
               /\ \A k \in Owned(p) \ {op.Key} : rwlock'[p][k] = rwlock[p][k]
       /\ (/\ th.pc = "wunlock" /\ th.i = Len(th.ops)
           /\ OnlyHandler(p, h)
           /\ Did("Prepare", p, th.tid)
           /\ prepare'[p][h] # th)
            => call' = PrepareReply(p, th.tid, th.ep, TRUE, FALSE)]_vars


\* the operation list ops takes the lock of a key of p twice, once at least for a Set
Relocks(p, ops) == \E i \in 1..Len(ops), j \in 1..Len(ops) :
  /\ i < j /\ ops[i].Key = ops[j].Key /\ ops[i].Key \in Owned(p)
  /\ ~ops[i].IsGet \/ ~ops[j].IsGet

\* C35: in the runs with one transaction (no other transaction holds a key), a
\* Prepare handler of a transaction that accesses a key twice, once at least with
\* a Set, returns: it does not stay in the handler for ever.
C35_RepeatedKeyPrepared ==
  \A p \in Servers, h \in Slots :
    []((prepare[p][h].pc # "idle" /\ Relocks(p, prepare[p][h].ops))
         => <>(prepare[p][h].pc = "idle" \/ ~Running))


\* C34: in the step that follows a participant's acknowledgement of Abort(tid),
\* the participant does not enter VotedYes for tid and holds no lock for tid
\* (the first step of the claim's "never afterwards").
C34_AbortIsFinal ==
  [][\A p \in Servers, t \in Tids :
       (call.rpc = "Abort" /\ call.p = p /\ call.tid = t /\ call.ret)
         => /\ states'[p][t] # stateVotedYes
            /\ HoldsNoLock(p, t)']_vars


\* C33: whenever a participant is PreCommitted for tid, every participant that
\* holds logged operations for tid has a state that a Yes vote precedes: none
\* is without a state (Operations) and none is VotedNo.
C33_PreCommittedAfterVotes ==
  \A t \in Tids, p \in Servers :
    states[p][t] = statePreCommitted
      => \A q \in RelevantSet(t) :
           states[q][t] \notin {NoEntry, stateOperations, stateVotedNo}

\* participant 0 is PreCommitted for a transaction with operations at both
\* participants, and participant 1 is still VotedYes
C33_Witness ==
  \E t \in Tids :
    /\ RelevantSet(t) = Servers
    /\ states[0][t] = statePreCommitted
    /\ states[1][t] = stateVotedYes


\* the Prepare handler h of p is in a call of RLock() or Lock() on a key's lock
InLockCall(p, h) == prepare[p][h].pc \in {"lock", "announce", "rwadd", "wait", "rwait"}

\* the handlers Get and Set, whoever calls them
HandlerGet == \E t \in Tids, k \in {"x", "u"} :
  Get(SUT, t, k) /\ UNCHANGED <<call, sysvars>>
HandlerSet == \E t \in Tids, k \in {"x", "u"} :
  Set(SUT, t, k, t) /\ UNCHANGED <<call, sysvars>>

\* C31: a Prepare handler that is in a call of RLock() or Lock() on a key's
\* lock, waiting or not, does not hold the participant's mutex.  While a Prepare
\* handler waits for a key's lock, the mutex is free and Commit, Abort,
\* PreCommit, Query, Get and Set can be entered, or the handler that holds it
\* (an Abort or a Commit in its loop, a Prepare at line 85) can take its next
\* step.
C31_MutexFreeWhileBlocked ==
  Running
    => /\ \A h \in Slots : InLockCall(SUT, h) => ~HoldsMu(SUT, h)
       /\ (\E t \in Tids : Blocked(SUT, t))
            => /\ mu[SUT].rpc = "none"
                    => /\ ENABLED CallCommit
                       /\ ENABLED CallAbort
                       /\ ENABLED CallPreCommit
                       /\ ENABLED CallQuery
                       /\ ENABLED HandlerGet
                       /\ ENABLED HandlerSet
               /\ mu[SUT].rpc = "Abort" => ENABLED StepAbort
               /\ mu[SUT].rpc = "Commit" => ENABLED StepCommit
               /\ mu[SUT].rpc = "Prepare"
                    => \E h \in Slots : /\ HoldsMu(SUT, h)
                                         /\ prepare[SUT][h].pc = "lookup"
                                         /\ ENABLED StepPrepareLoop

\* a Commit has just released the lock that a Prepare handler of another
\* transaction waits for in Lock(): the semaphore of the writer is posted
C31_Witness ==
  \E h \in Slots :
    /\ prepare[SUT][h].pc = "wait"
    /\ call.rpc = "Commit" /\ call.ret /\ call.tid # prepare[SUT][h].tid
    /\ states[SUT][call.tid] = stateCommitted
    /\ rwlock[SUT][prepare[SUT][h].ops[prepare[SUT][h].i].Key].sem > 0


\* the Prepare handler h of p waits in Lock() at the writers' mutex of a key whose
\* write lock transaction u holds
WaitsFor(p, h, u) ==
  LET th == prepare[p][h] IN
  /\ th.pc = "lock" /\ ~th.ops[th.i].IsGet
  /\ u \in Tids /\ u # th.tid
  /\ rwlock[p][th.ops[th.i].Key].wm
  /\ held[p][u][th.ops[th.i].Key].w > 0

\* two Prepare handlers wait for each other's lock, and neither transaction has
\* a state yet, so that Abort and Commit release nothing for them
PrepareDeadlock(p) == \E h \in Slots, g \in Slots :
  /\ WaitsFor(p, h, prepare[p][g].tid)
  /\ WaitsFor(p, g, prepare[p][h].tid)
  /\ states[p][prepare[p][h].tid] = NoEntry
  /\ states[p][prepare[p][g].tid] = NoEntry

\* C32: no state is reached in which the Prepare handlers of two transactions
\* with overlapping keys wait for each other's locks.
C32_NoPrepareDeadlock == \A p \in Servers : ~PrepareDeadlock(p)
====
